---- MODULE Spec2Model ----
(***************************************************************************)
(* A model of the PDF export of the article application:                   *)
(*   backend/services/pdfService.js  (PDFService)                          *)
(*   backend/routes/articles.js      (GET /:id/export/pdf)                 *)
(*                                                                         *)
(* Strings are sequences of characters; a character is a one-element name  *)
(* such as "a", "_" or "e'" (a UTF-16 code unit of the JavaScript string). *)
(* Lengths on the page are integers in 1/10000 of a PDF point, so that     *)
(* the A4 height 841.89 is 8418900.                                        *)
(*                                                                         *)
(* Three specifications share the module:                                  *)
(*   SpecFilename  PDFService.generateFilename applied to bounded titles   *)
(*   SpecClassify  one step of processMarkdownContent applied to one line  *)
(*   Spec          one call of generateArticlePDF, step by step            *)
(***************************************************************************)
EXTENDS Integers, Sequences, FiniteSets, TLC

VARIABLES
    fnTitle,      \* generateFilename: article.title
    fnCalls       \* generateFilename: the calls made so far, each [now, result]

VARIABLES
    mdLine,       \* processMarkdownContent: one element of content.split('\n')
    mdStyle,      \* the font, size and colour in force when the line is reached
    mdOps,        \* the calls made on doc for that line, in order
    mdState,      \* "idle" | "done"
    mdLines,      \* processMarkdownContent: the array content.split('\n')
    mdLog         \* the lines the callback has returned from, each [raw, ops]

VARIABLES
    article,      \* generateArticlePDF: the article record given
    outputPath,   \* generateArticlePDF: "null" or a path
    fsOk,         \* whether fs.writeFileSync(outputPath, ..) succeeds
    pc,           \* the statement of the promise executor reached
    index,        \* the turns made of the forEach under way
    tagY,         \* addMetadata: the variable tagY
    doc,          \* the PDFDocument
    stream,       \* the document as a readable stream, seen by its listeners
    chunks,       \* the closure's array chunks
    promise,      \* the promise returned: [state, buffer, filePath, error]
    thrown,       \* the error the try block caught, or "none"
    uncaught,     \* the error thrown out of an event listener, or "none"
    file,         \* what fs.writeFileSync wrote, or <<>>
    response,     \* the export route's answer: [status, contentType, body, error]
    fwdPages,     \* the number of pages when addContent returned, 0 before
    stored        \* the article as the database holds it

VARIABLES
    service,      \* the PDFService singleton: [defaultMargin, pageWidth, pageHeight]
    renders       \* two calls of generateArticlePDF on it, each with its closure

VARIABLES
    dbDoc,        \* one article as the database holds it
    inflight,     \* the requests for that article being handled, one per slot
    dateNow,      \* the time (Date.now()), in half hours
    stores,       \* the summaries stored: [slot, at]
    checks,       \* the tests of the summarize handler: [slot, at, stored, passed]
    answered      \* the requests answered: [slot, route, user, status]

VARIABLES
    savedTags,    \* the tags of an article as stored; <<>> before it is created
    saves         \* the saves asked for: their count, and the last [kind, given, status, before]

VARIABLES
    dbArticles,   \* the collection of articles
    hits,         \* the stores of the two rate limiters: hits per client IP
    clock,        \* the time, in seconds
    apiLast,      \* the last request answered, with its answer
    runs          \* the runs of the summarize handler: [ip, at]

fnVars == <<fnTitle, fnCalls>>
mdVars == <<mdLine, mdStyle, mdOps, mdState, mdLines, mdLog>>
pdfVars == <<article, outputPath, fsOk, pc, index, tagY, doc, stream, chunks, promise,
             thrown, uncaught, file, response, fwdPages, stored>>
twoVars == <<service, renders>>
apiVars == <<dbArticles, hits, clock, apiLast, runs>>
hVars == <<dbDoc, inflight, dateNow, stores, checks, answered>>
tVars == <<savedTags, saves>>

vars == <<fnTitle, fnCalls, mdLine, mdStyle, mdOps, mdState, mdLines, mdLog,
          article, outputPath, fsOk, pc, index, tagY, doc, stream, chunks, promise,
          thrown, uncaught, file, response, fwdPages, stored,
          service, renders, dbArticles, hits, clock, apiLast, runs,
          dbDoc, inflight, dateNow, stores, checks, answered, savedTags, saves>>

----------------------------------------------------------------------------
(* Strings *)

Min(a, b) == IF a < b THEN a ELSE b

RECURSIVE Repeat(_, _)
Repeat(c, n) == IF n <= 0 THEN <<>> ELSE <<c>> \o Repeat(c, n - 1)

RECURSIVE StrsUpTo(_, _)
\* every string over alphabet A of length at most n
StrsUpTo(A, n) ==
    IF n = 0 THEN {<<>>}
    ELSE LET shorter == StrsUpTo(A, n - 1)
         IN  shorter \cup {Append(s, c) : s \in shorter, c \in A}

Lower == {"a","b","c","d","e","f","g","h","i","j","k","l","m",
          "n","o","p","q","r","s","t","u","v","w","x","y","z"}
Upper == {"A","B","C","D","E","F","G","H","I","J","K","L","M",
          "N","O","P","Q","R","S","T","U","V","W","X","Y","Z"}
Digit == {"0","1","2","3","4","5","6","7","8","9"}

StartsWith(s, p) == Len(s) >= Len(p) /\ SubSeq(s, 1, Len(p)) = p

EndsWith(s, p) == Len(s) >= Len(p) /\ SubSeq(s, Len(s) - Len(p) + 1, Len(s)) = p

\* String.prototype.includes
Includes(s, p) == \E i \in 1..(Len(s) - Len(p) + 1) : SubSeq(s, i, i + Len(p) - 1) = p

----------------------------------------------------------------------------
(* PDFService.processMarkdownContent and processBoldText *)

\* white space as String.prototype.trim and the regex class \s see it
WhiteSpace == {" ", "TAB", "CR"}

RECURSIVE TrimLeft(_)
TrimLeft(s) == IF s # <<>> /\ Head(s) \in WhiteSpace THEN TrimLeft(Tail(s)) ELSE s

RECURSIVE TrimRight(_)
TrimRight(s) ==
    IF s # <<>> /\ s[Len(s)] \in WhiteSpace THEN TrimRight(SubSeq(s, 1, Len(s) - 1)) ELSE s

\* line.trim()
Trim(s) == TrimRight(TrimLeft(s))

\* line.substring(n)
SubstringFrom(s, n) == SubSeq(s, n + 1, Len(s))

\* line.match(/^\d+\.\s/)
MatchesNumbered(s) ==
    \E n \in 1..Len(s) :
        /\ \A k \in 1..n : s[k] \in Digit
        /\ Len(s) >= n + 2
        /\ s[n + 1] = "."
        /\ s[n + 2] \in WhiteSpace

BoldDelimiter == <<"*", "*">>

RECURSIVE SplitFrom(_, _, _, _)
\* the segments of s from position i on, cur being the segment under way
SplitFrom(s, sep, i, cur) ==
    IF i > Len(s) THEN <<cur>>
    ELSE IF i + Len(sep) - 1 <= Len(s) /\ SubSeq(s, i, i + Len(sep) - 1) = sep
         THEN <<cur>> \o SplitFrom(s, sep, i + Len(sep), <<>>)
    ELSE SplitFrom(s, sep, i + 1, Append(cur, s[i]))

\* text.split('**')
Split(s, sep) == SplitFrom(s, sep, 1, <<>>)

\* the characters the source writes before a bullet item's text
BulletGlyph == <<"a^", "EUR", "cent", " ">>

\* doc.text(text, options) with the font, size and fill colour in force
TextOp(st, text, indent, lineGap, align, continued) ==
    [kind |-> "text", text |-> text, font |-> st.font, size |-> st.size,
     color |-> st.color, indent |-> indent, lineGap |-> lineGap, align |-> align,
     continued |-> continued]

\* doc.moveDown(n), n in hundredths of a line
MoveDownOp(n) == [kind |-> "moveDown", lines |-> n]

\* doc.fontSize(..).font(..).fillColor(..)
Style(size, font, color) == [size |-> size, font |-> font, color |-> color]

RECURSIVE BoldOpsFrom(_, _, _)
\* the body of the loop of processBoldText from index i (0-based) on; the bold
\* branch sets the font only
BoldOpsFrom(st, parts, i) ==
    IF i >= Len(parts) THEN [st |-> st, ops |-> <<>>]
    ELSE LET st1 == IF i % 2 = 0 THEN Style(10, "Helvetica", "#374151")
                    ELSE [st EXCEPT !.font = "Helvetica-Bold"]
             op == TextOp(st1, parts[i + 1], 0, 0, "left", i < Len(parts) - 1)
             rest == BoldOpsFrom(st1, parts, i + 1)
         IN  [st |-> rest.st, ops |-> <<op>> \o rest.ops]

BoldOpsSwapped(st, text) ==
    LET parts == Split(text, BoldDelimiter)
        r == BoldOpsFrom(st, <<<<>>>> \o parts, 1)
    IN  [st |-> r.st, ops |-> Append(r.ops, MoveDownOp(20))]

\* an unterminated span is left open: its segment stays continued text
processBoldTextPaired(st, text) ==
    LET parts == Split(text, BoldDelimiter)
        r == BoldOpsFrom(st, parts, 0)
        n == Len(r.ops)
        ops == IF Len(parts) % 2 = 0
               THEN [r.ops EXCEPT ![n] = [@ EXCEPT !.continued = TRUE]]
               ELSE r.ops
    IN  [st |-> r.st, ops |-> Append(ops, MoveDownOp(20))]

\* the regular branch sets the font only, as the bold branch does
processBoldTextKeepStyle(st, text) ==
    LET parts == Split(text, BoldDelimiter)
        ops == [k \in 1..Len(parts) |->
                   TextOp([st EXCEPT !.font = IF k % 2 = 1 THEN "Helvetica"
                                               ELSE "Helvetica-Bold"],
                          parts[k], 0, 0, "left", k < Len(parts))]
    IN  [st |-> [st EXCEPT !.font = IF Len(parts) % 2 = 1 THEN "Helvetica"
                                     ELSE "Helvetica-Bold"],
         ops |-> Append(ops, MoveDownOp(20))]

processBoldText(st, text) ==
    LET r == BoldOpsFrom(st, Split(text, BoldDelimiter), 0)
    IN  [st |-> r.st, ops |-> Append(r.ops, MoveDownOp(20))]

\* numbered items are taken for bullet items
ClassifyNumberedAsBullet(line) ==
    IF line = <<>> THEN "empty"
    ELSE IF StartsWith(line, <<"#", "#", "#", " ">>) THEN "h3"
    ELSE IF StartsWith(line, <<"#", "#", " ">>) THEN "h2"
    ELSE IF StartsWith(line, <<"#", " ">>) THEN "h1"
    ELSE IF StartsWith(line, <<"-", " ">>) \/ StartsWith(line, <<"*", " ">>)
            \/ MatchesNumbered(line) THEN "bullet"
    ELSE IF StartsWith(line, <<">", " ">>) THEN "blockquote"
    ELSE IF Includes(line, BoldDelimiter) THEN "bold"
    ELSE "paragraph"

ClassifyBoldFirst(line) ==
    IF line = <<>> THEN "empty"
    ELSE IF StartsWith(line, <<"#", "#", "#", " ">>) THEN "h3"
    ELSE IF StartsWith(line, <<"#", "#", " ">>) THEN "h2"
    ELSE IF StartsWith(line, <<"#", " ">>) THEN "h1"
    ELSE IF Includes(line, BoldDelimiter) THEN "bold"
    ELSE IF StartsWith(line, <<"-", " ">>) \/ StartsWith(line, <<"*", " ">>) THEN "bullet"
    ELSE IF MatchesNumbered(line) THEN "numbered"
    ELSE IF StartsWith(line, <<">", " ">>) THEN "blockquote"
    ELSE "paragraph"

\* the branch of the if-chain of processMarkdownContent taken for a trimmed line
Classify(line) ==
    IF line = <<>> THEN "empty"
    ELSE IF StartsWith(line, <<"#", "#", "#", " ">>) THEN "h3"
    ELSE IF StartsWith(line, <<"#", "#", " ">>) THEN "h2"
    ELSE IF StartsWith(line, <<"#", " ">>) THEN "h1"
    ELSE IF StartsWith(line, <<"-", " ">>) \/ StartsWith(line, <<"*", " ">>) THEN "bullet"
    ELSE IF MatchesNumbered(line) THEN "numbered"
    ELSE IF StartsWith(line, <<">", " ">>) THEN "blockquote"
    ELSE IF Includes(line, BoldDelimiter) THEN "bold"
    ELSE "paragraph"

\* the callback of lines.forEach: the calls made on doc for one raw line, and the
\* font, size and colour left in force
ProcessLine(st, raw) ==
    LET line == Trim(raw)
        branch == Classify(line)
    IN  CASE branch = "empty" -> [st |-> st, ops |-> <<MoveDownOp(30)>>]
          [] branch = "h3" ->
               LET s1 == Style(12, "Helvetica-Bold", "#374151")
               IN  [st |-> s1,
                    ops |-> <<TextOp(s1, SubstringFrom(line, 4), 0, 6, "left", FALSE),
                              MoveDownOp(30)>>]
          [] branch = "h2" ->
               LET s1 == Style(14, "Helvetica-Bold", "#1f2937")
               IN  [st |-> s1,
                    ops |-> <<TextOp(s1, SubstringFrom(line, 3), 0, 6, "left", FALSE),
                              MoveDownOp(40)>>]
          [] branch = "h1" ->
               LET s1 == Style(16, "Helvetica-Bold", "#1f2937")
               IN  [st |-> s1,
                    ops |-> <<TextOp(s1, SubstringFrom(line, 2), 0, 8, "left", FALSE),
                              MoveDownOp(50)>>]
          [] branch = "bullet" ->
               LET s1 == Style(10, "Helvetica", "#4b5563")
               IN  [st |-> s1,
                    ops |-> <<TextOp(s1, BulletGlyph \o SubstringFrom(line, 2),
                                     20, 3, "justify", FALSE)>>]
          [] branch = "numbered" ->
               LET s1 == Style(10, "Helvetica", "#4b5563")
               IN  [st |-> s1, ops |-> <<TextOp(s1, line, 20, 3, "justify", FALSE)>>]
          [] branch = "blockquote" ->
               LET s1 == Style(10, "Helvetica-Oblique", "#6b7280")
               IN  [st |-> s1,
                    ops |-> <<TextOp(s1, SubstringFrom(line, 2), 30, 3, "justify", FALSE)>>]
          [] branch = "bold" -> processBoldText(st, line)
          [] OTHER ->
               LET s1 == Style(10, "Helvetica", "#374151")
               IN  [st |-> s1,
                    ops |-> <<TextOp(s1, line, 0, 4, "justify", FALSE), MoveDownOp(20)>>]

\* the font, size and colour addContent leaves in force before the first line
ContentLabelStyle == Style(14, "Helvetica-Bold", "#1f2937")

----------------------------------------------------------------------------
(* PDFService.generateFilename *)

\* the class [a-z0-9] under the flag i (no flag u: only ASCII letters fold)
AlnumClass == Lower \cup Upper \cup Digit

\* .replace(/[^a-z0-9]/gi, '_')
ReplaceNonAlnum(s) == [i \in 1..Len(s) |-> IF s[i] \in AlnumClass THEN s[i] ELSE "_"]

RECURSIVE CollapseFrom(_, _)
CollapseFrom(s, i) ==
    IF i > Len(s) THEN <<>>
    ELSE IF s[i] = "_" /\ i > 1 /\ s[i - 1] = "_" THEN CollapseFrom(s, i + 1)
    ELSE <<s[i]>> \o CollapseFrom(s, i + 1)

\* .replace(/_{2,}/g, '_'): every maximal run of two or more "_" becomes one "_"
CollapseUnderscores(s) == CollapseFrom(s, 1)

TitleMax == 50

TruncateNone(s) == s

\* .substring(0, 50)
Truncate(s) == SubSeq(s, 1, Min(TitleMax, Len(s)))

SanitizeTruncateFirst(t) == CollapseUnderscores(Truncate(ReplaceNonAlnum(t)))

\* the value of the local constant title
SanitizeTitle(t) == Truncate(CollapseUnderscores(ReplaceNonAlnum(t)))

RECURSIVE BeforeFirst(_, _, _)
BeforeFirst(s, c, i) ==
    IF i > Len(s) \/ s[i] = c THEN <<>> ELSE <<s[i]>> \o BeforeFirst(s, c, i + 1)

IsoDateUnsplit(now) == now

\* new Date().toISOString().split('T')[0]
IsoDate(now) == BeforeFirst(now, "T", 1)

ArticlePrefix == <<"a","r","t","i","c","l","e","_">>
PdfExt == <<".","p","d","f">>

generateFilename(t, now) ==
    ArticlePrefix \o SanitizeTitle(t) \o <<"_">> \o IsoDate(now) \o PdfExt

----------------------------------------------------------------------------
(* The document generateArticlePDF draws on.  Lengths are integers in        *)
(* 1/10000 of a point: 50 pt is 500000, the A4 height 841.89 pt is 8418900.  *)

\* this.defaultMargin, this.pageWidth, this.pageHeight
defaultMargin == 500000
pageWidth == 5952800
pageHeight == 8418900

Pt(n) == n * 10000

\* the options of new PDFDocument({margin, size, info}): bufferPages is not set
DocOptions == [margin |-> defaultMargin, size |-> "A4", bufferPages |-> FALSE]

\* the height of one line of text: the font's ascender - descender + line gap,
\* in 1/1000 of the font size (Helvetica 1156, Helvetica-Bold 1190)
LineHeight(font, size) ==
    size * (IF font = "Helvetica-Bold" THEN 11900 ELSE 11560)

\* page.maxY(): the lowest y text may start a line at
MaxY == pageHeight - DocOptions.margin

\* document.addPage(): without bufferPages every page held is flushed (written
\* to the stream and dropped from the page buffer) before the new page is added
AddPage(d) ==
    LET flush == ~DocOptions.bufferPages
        held == (d.bufStart + 1)..(d.bufStart + d.bufLen)
        written == [k \in 1..d.bufLen |-> <<"page", d.bufStart + k>>]
    IN  [d EXCEPT
            !.pushed = IF flush THEN @ \o written ELSE @,
            !.bufStart = IF flush THEN @ + d.bufLen ELSE @,
            !.bufLen = IF flush THEN 1 ELSE @ + 1,
            !.pages = Append(@, <<>>),
            !.page = Len(d.pages) + 1,
            !.x = DocOptions.margin,
            !.y = DocOptions.margin]

\* a mark on the current page
Draw(d, what, y) == [d EXCEPT !.pages[d.page] = Append(@, [what |-> what, y |-> y])]

\* doc.fontSize(..).font(..).fillColor(..)
SetStyle(d, st) == [d EXCEPT !.font = st.font, !.size = st.size, !.color = st.color]

DocStyle(d) == Style(d.size, d.font, d.color)

\* doc.moveDown(n), n in hundredths: y grows by n/100 line heights
MoveDown(d, n) == [d EXCEPT !.y = @ + (n * LineHeight(d.font, d.size)) \div 100]

\* the rows LineWrapper.wrap puts on the current page from y on: after a row
\* that is not the last, the text goes on on a new page when the next row would
\* pass maxY
RowsThatFit(y, lh, lineGap) ==
    LET k == ((MaxY - lh - y) \div (lh + lineGap)) + 1
    IN  IF k < 1 THEN 1 ELSE k

RECURSIVE WrapRows(_, _, _)
\* LineWrapper.wrap: each row advances y by the line height plus the line gap
WrapRows(d, rows, lineGap) ==
    LET lh == LineHeight(d.font, d.size)
        fit == RowsThatFit(d.y, lh, lineGap)
    IN  IF rows <= fit THEN [d EXCEPT !.y = @ + rows * (lh + lineGap)]
        ELSE WrapRows(AddPage([d EXCEPT !.y = @ + fit * (lh + lineGap)]),
                      rows - fit, lineGap)

\* doc.text(text, options) at the pen, text taking the given number of rows:
\* when the first row would pass maxY the text starts on a new page; the mark is
\* made on the page and at the y where the first row lands
TextAtPen(d, what, rows, lineGap, continued) ==
    LET lh == LineHeight(d.font, d.size)
        d1 == IF d.y > MaxY \/ d.y + lh > MaxY THEN AddPage(d) ELSE d
        d2 == Draw(d1, what, d1.y)
    IN  IF continued THEN d2 ELSE WrapRows(d2, rows, lineGap)

\* doc.text(text, x, y, options): the pen is moved to (x, y) first
TextAt(d, what, x, y, rows) ==
    TextAtPen([d EXCEPT !.x = x, !.y = y], what, rows, 0, FALSE)

\* document.switchToPage(n), n counted from 0: the page must be in the page
\* buffer, else an Error is thrown
SwitchOutOfBounds(d, n) ==
    ~(n - d.bufStart >= 0 /\ n - d.bufStart < d.bufLen)

switchToPage(d, n) == [d EXCEPT !.page = n + 1]

\* document.bufferedPageRange()
bufferedPageRange(d) == [start |-> d.bufStart, count |-> d.bufLen]

\* document.end(): the pages held are flushed, the trailer written, and the
\* stream closed with push(null)
DocEnd(d) ==
    LET written == [k \in 1..d.bufLen |-> <<"page", d.bufStart + k>>]
    IN  [d EXCEPT !.pushed = @ \o written \o << <<"trailer">> >>,
                  !.bufStart = @ + d.bufLen, !.bufLen = 0, !.ended = TRUE]

\* new PDFDocument(options): the file header is written and the first page added
NewDocument ==
    AddPage([pushed |-> << <<"header">> >>, bufStart |-> 0, bufLen |-> 0,
             pages |-> <<>>, page |-> 0, x |-> 0, y |-> 0,
             font |-> "Helvetica", size |-> 12, color |-> "black",
             ended |-> FALSE])

----------------------------------------------------------------------------
(* PDFService.addHeader, addMetadata, addContent, addFooter.  Each returns    *)
(* [doc, err]: the document after the calls made, and the error thrown or     *)
(* "none".  An article gives, for every text, the number of rows the text     *)
(* takes at its width, and for every tag its width in 1/1000 of the font size.*)

Ok(d) == [doc |-> d, err |-> "none"]
Threw(d, e) == [doc |-> d, err |-> e]

addHeader(d, a) ==
    LET d1 == SetStyle(d, Style(24, "Helvetica-Bold", "#1f2937"))
        d2 == TextAtPen(d1, <<"title">>, a.title.rows, 0, FALSE)
        d3 == MoveDown(d2, 50)
        d4 == Draw(d3, <<"titleRule">>, d3.y)
    IN  Ok(MoveDown(d4, 100))

MetadataLabels == <<"Author", "Email", "Created", "Last Updated", "Views">>

\* a field that may be absent: undefined, or a string
Undefined == [defined |-> FALSE, s |-> <<>>]
Opt(s) == [defined |-> TRUE, s |-> s]

OrElseNever(v, dflt) == v.s

\* v || dflt on an optional string: undefined and '' are falsy
OrElse(v, dflt) == IF v.defined /\ v.s # <<>> THEN v.s ELSE dflt

DigitChars == <<"0", "1", "2", "3", "4", "5", "6", "7", "8", "9">>

RECURSIVE NumberToString(_)
\* Number.prototype.toString() of a non-negative integer
NumberToString(n) ==
    IF n < 10 THEN <<DigitChars[n + 1]>>
    ELSE NumberToString(n \div 10) \o <<DigitChars[(n % 10) + 1]>>

UnknownAuthor == <<"U","n","k","n","o","w","n"," ","A","u","t","h","o","r">>
NotAvailable == <<"N", "/", "A">>

\* new Date(t).toLocaleDateString('en-US', ..) of a timestamp
LocaleDate(t) == <<"date", t>>

\* article.createdBy?.name and article.createdBy?.email
AuthorName(a) == IF a.createdBy.defined THEN a.createdBy.name ELSE Undefined
AuthorEmail(a) == IF a.createdBy.defined THEN a.createdBy.email ELSE Undefined

\* article.viewCount?.toString()
ViewCountString(a) == IF a.viewCount.defined THEN Opt(NumberToString(a.viewCount.n)) ELSE Undefined

\* the array metadata of addMetadata
Metadata(a) ==
    << [label |-> "Author", value |-> OrElse(AuthorName(a), UnknownAuthor)],
       [label |-> "Email", value |-> OrElse(AuthorEmail(a), NotAvailable)],
       [label |-> "Created", value |-> LocaleDate(a.createdAt)],
       [label |-> "Last Updated", value |-> LocaleDate(a.updatedAt)],
       [label |-> "Views", value |-> OrElse(ViewCountString(a), <<"0">>)] >>

\* the callback of metadata.forEach: y is read from the pen, which the two text
\* calls of the rows before have moved
MetadataRow(d, a, i) ==
    LET item == Metadata(a)[i + 1]
        x == defaultMargin + Pt(20)
        y == d.y + i * Pt(18)
        d1 == TextAt([d EXCEPT !.font = "Helvetica-Bold"],
                     <<"label", item.label>>, x, y, 1)
    IN  TextAt([d1 EXCEPT !.font = "Helvetica"],
               <<"value", item.label, item.value>>, x + Pt(85), y, 1)

\* addMetadata up to metadata.forEach: the box, and the font of the rows
MetadataBox(d) ==
    LET d1 == Draw(d, <<"metaBox", Pt(120)>>, d.y)
    IN  SetStyle(MoveDown(d1, 50), Style(10, "Helvetica", "#4b5563"))

\* doc.y += metadata.length * 18 + 10, and the label of the tags when there
\* are tags
TagsLabel(d, a) ==
    LET d1 == [d EXCEPT !.y = @ + Len(MetadataLabels) * Pt(18) + Pt(10)]
    IN  IF Len(a.tags) > 0
        THEN TextAt([d1 EXCEPT !.font = "Helvetica-Bold"],
                    <<"tagsLabel">>, defaultMargin + Pt(20), d1.y, 1)
        ELSE d1

\* the width of the text alone
TagWidthUnpadded(d, tag) ==
    (IF d.font = "Helvetica-Bold" THEN tag.boldUnits ELSE tag.units) * d.size * 10

\* doc.widthOfString(tagText) + 16 with the font and size in force
TagWidth(d, tag) ==
    (IF d.font = "Helvetica-Bold" THEN tag.boldUnits ELSE tag.units) * d.size * 10
        + Pt(16)

\* the turn with the wrap test made against the edge of the page
TagChipWrapAtPageEdge(d, tag, k, ty) ==
    LET tagWidth == TagWidth(d, tag)
        wrap == d.x + tagWidth > pageWidth
        x1 == IF wrap THEN defaultMargin + Pt(70) ELSE d.x
        y1 == IF wrap THEN ty + Pt(20) ELSE ty
        d1 == Draw([d EXCEPT !.x = x1], <<"chip", k, x1, x1 + tagWidth>>, y1 - Pt(2))
        d2 == SetStyle(d1, Style(9, "Helvetica", "#1e40af"))
        d3 == TextAt(d2, <<"chipText", k>>, x1 + Pt(8), y1 + Pt(2), 1)
    IN  [doc |-> [d3 EXCEPT !.x = @ + tagWidth + Pt(8)], tagY |-> y1]

\* the turn with a chip that does not fit left out
TagChipDroppedOnWrap(d, tag, k, ty) ==
    LET tagWidth == TagWidth(d, tag)
        wrap == d.x + tagWidth > pageWidth - defaultMargin
        d1 == Draw(d, <<"chip", k, d.x, d.x + tagWidth>>, ty - Pt(2))
        d2 == SetStyle(d1, Style(9, "Helvetica", "#1e40af"))
        d3 == TextAt(d2, <<"chipText", k>>, d.x + Pt(8), ty + Pt(2), 1)
    IN  IF wrap THEN [doc |-> d, tagY |-> ty]
        ELSE [doc |-> [d3 EXCEPT !.x = @ + tagWidth + Pt(8)], tagY |-> ty]

\* the callback of article.tags.forEach for the k-th tag; tagY is the closure's
\* variable
TagChip(d, tag, k, ty) ==
    LET tagWidth == TagWidth(d, tag)
        wrap == d.x + tagWidth > pageWidth - defaultMargin
        x1 == IF wrap THEN defaultMargin + Pt(70) ELSE d.x
        y1 == IF wrap THEN ty + Pt(20) ELSE ty
        d1 == Draw([d EXCEPT !.x = x1], <<"chip", k, x1, x1 + tagWidth>>, y1 - Pt(2))
        d2 == SetStyle(d1, Style(9, "Helvetica", "#1e40af"))
        d3 == TextAt(d2, <<"chipText", k>>, x1 + Pt(8), y1 + Pt(2), 1)
    IN  [doc |-> [d3 EXCEPT !.x = @ + tagWidth + Pt(8)], tagY |-> y1]

\* the end of addMetadata: doc.y = tagY + 20 when there are tags, doc.moveDown(1)
MetadataEnd(d, a, ty) ==
    MoveDown(IF Len(a.tags) > 0 THEN [d EXCEPT !.y = ty + Pt(20)] ELSE d, 100)

\* a content that is a string, as the lines content.split('\n') gives: at least
\* one line, the empty string giving one empty line
StringContent(lines) == [string |-> TRUE, lines |-> lines]

\* a content that is no string (undefined)
NoContent == [string |-> FALSE, lines |-> <<>>]

\* addContent up to the call of processMarkdownContent, whose first statement,
\* content.split, throws a TypeError when content is no string
addContent(d, a) ==
    LET s1 == TextAtPen(SetStyle(d, Style(14, "Helvetica-Bold", "#1f2937")),
                        <<"summaryLabel">>, 1, 0, FALSE)
        s2 == MoveDown(Draw(MoveDown(s1, 30), <<"summaryBar">>, MoveDown(s1, 30).y), 50)
        s3 == TextAtPen(SetStyle(s2, Style(11, "Helvetica-Oblique", "#374151")),
                        <<"summary">>, a.summary.rows, Pt(4), FALSE)
        d1 == IF a.summary.rows > 0 THEN MoveDown(s3, 100) ELSE d
        d2 == TextAtPen(SetStyle(d1, Style(14, "Helvetica-Bold", "#1f2937")),
                        <<"contentLabel">>, 1, 0, FALSE)
        d3 == MoveDown(d2, 30)
        d4 == MoveDown(Draw(d3, <<"contentBar">>, d3.y), 80)
    IN  IF ~a.content.string THEN Threw(d4, "TypeError") ELSE Ok(d4)

RECURSIVE ApplyOps(_, _, _, _, _)
\* the calls of one line made on the document; the text of the line takes rows
\* rows, continued segments stay on the row they start on
ApplyOps(d, ops, k, n, rows) ==
    IF k > Len(ops) THEN d
    ELSE LET op == ops[k]
             d1 == IF op.kind = "moveDown" THEN MoveDown(d, op.lines)
                   ELSE TextAtPen(SetStyle(d, Style(op.size, op.font, op.color)),
                                  <<"line", n, k>>, rows, Pt(op.lineGap),
                                  op.continued)
         IN  ApplyOps(d1, ops, k + 1, n, rows)

\* the callback of lines.forEach on the document, for line number n
ContentLine(d, item, n) ==
    ApplyOps(d, ProcessLine(DocStyle(d), item.raw).ops, 1, n, item.rows)

RECURSIVE FooterFrom(_, _, _)
\* the loop of addFooter from i on; pages is the range read before the loop
FooterFrom(d, pages, i) ==
    IF i >= pages.count THEN Ok(d)
    ELSE IF SwitchOutOfBounds(d, i) THEN Threw(d, "switchToPage out of bounds")
    ELSE LET d1 == switchToPage(d, i)
             d2 == Draw(d1, <<"footerRule">>, pageHeight - Pt(60))
             d3 == SetStyle(d2, Style(8, "Helvetica", "#9ca3af"))
             d4 == TextAt(d3, <<"generated">>, defaultMargin, pageHeight - Pt(45), 1)
             d5 == TextAt(d4, <<"pageOf", i + 1, pages.count>>,
                          defaultMargin, pageHeight - Pt(45), 1)
         IN  FooterFrom(d5, pages, i + 1)

addFooter(d, a) == FooterFrom(d, bufferedPageRange(d), 0)

----------------------------------------------------------------------------
(* Inputs of SpecFilename *)

MaxAffix == 2
MaxFill == 52

AffixChars == {"a", "_", "!"}
FillChars == {"Z", "7", "e'", "_"}
FillLens == {0, 1} \cup {n \in 1..MaxFill : n >= MaxFill - 4}

HelloWorldArticle ==
    <<"H","e","l","l","o"," ","W","o","r","l","d"," ","A","r","t","i","c","l","e">>

Titles ==
    {h \o Repeat(c, n) \o t :
        h \in StrsUpTo(AffixChars, MaxAffix), c \in FillChars,
        n \in FillLens, t \in StrsUpTo(AffixChars, 1)}
    \cup {HelloWorldArticle}

\* values of new Date().toISOString(): two instants of one UTC day, one of the next
Nows ==
    { <<"2","0","2","6","-","1","1","-","0","5","T","0","9",":","3","0",":","0","0",".","0","0","0","Z">>,
      <<"2","0","2","6","-","1","1","-","0","5","T","2","3",":","5","9",":","5","9",".","9","9","9","Z">>,
      <<"2","0","2","6","-","1","1","-","0","6","T","0","0",":","0","0",":","0","0",".","0","0","0","Z">> }

FilenameIdle == fnTitle = <<>> /\ fnCalls = <<>>

ClassifyIdle ==
    /\ mdLine = <<>> /\ mdStyle = ContentLabelStyle /\ mdOps = <<>> /\ mdState = "idle"
    /\ mdLines = <<>> /\ mdLog = <<>>

NoDoc == [pushed |-> <<>>, bufStart |-> 0, bufLen |-> 0, pages |-> <<>>, page |-> 0,
          x |-> 0, y |-> 0, font |-> "Helvetica", size |-> 12, color |-> "black",
          ended |-> FALSE]

Pending == [state |-> "pending", buffer |-> <<>>, filePath |-> "null", error |-> "none"]

NoResponse == [status |-> 0, contentType |-> "none", body |-> <<>>, error |-> "none"]

\* the constructor of PDFService
NewService ==
    [defaultMargin |-> defaultMargin, pageWidth |-> pageWidth, pageHeight |-> pageHeight]

Calls == {1, 2}

\* a call of generateArticlePDF not made yet: its document and its closure
NotCalled ==
    [pc |-> "idle", pushed |-> <<>>, ended |-> FALSE, delivered |-> 0,
     endFired |-> FALSE, chunks |-> <<>>, promise |-> Pending]

ConcurrentIdle == service = NewService /\ renders = [c \in Calls |-> NotCalled]

\* the users collection: the role and isActive of each account
UserIds == {"alice", "bob", "root", "carol"}

Users ==
    [u \in UserIds |->
        [role |-> IF u \in {"root", "carol"} THEN "admin" ELSE "user",
         isActive |-> u # "carol"]]

ArticleIds == {"a1"}

\* the articles collection at the start: article a1, created by alice
InitialArticles ==
    [a \in ArticleIds |->
        [exists |-> TRUE, createdBy |-> "alice", title |-> "T1", content |-> "C1",
         tags |-> "G1", summary |-> "none", summarizedAt |-> -1]]

\* the store of a rate limiter for a client that has made no request
NoHits == [count |-> 0, resetAt |-> 0]

Ips == {"ip1"}

NoToken == [kind |-> "none", sub |-> "none"]

NoRequest ==
    [route |-> "none", ip |-> "ip1", cookie |-> NoToken, bearer |-> NoToken,
     id |-> "a1", body |-> "none", status |-> 0, error |-> "none", handler |-> FALSE]

ApiIdle ==
    /\ dbArticles = InitialArticles
    /\ hits = [api |-> [ip \in Ips |-> NoHits], llm |-> [ip \in Ips |-> NoHits]]
    /\ clock = 0
    /\ apiLast = NoRequest
    /\ runs = <<>>

\* the article of the concurrent handlers: created by alice, never read or
\* summarized
NewArticle ==
    [createdBy |-> "alice", viewCount |-> 0, summary |-> 0,
     summarizedAt |-> -1, summarizedBy |-> "none"]

Slots == {1, 2}

IdleSlot == [pc |-> "idle", route |-> "none", user |-> "none", doc |-> NewArticle]

HandlersIdle ==
    /\ dbDoc = NewArticle
    /\ inflight = [h \in Slots |-> IdleSlot]
    /\ dateNow = 0
    /\ stores = <<>> /\ checks = <<>> /\ answered = <<>>

\* no create or update request has been answered
NoSave == [kind |-> "none", given |-> [defined |-> FALSE, list |-> <<>>], status |-> 0,
           before |-> <<>>]

SaveIdle == savedTags = <<>> /\ saves = [count |-> 0, last |-> NoSave]

IdleArticle ==
    [title |-> [rows |-> 1],
     createdBy |-> [defined |-> FALSE, name |-> Undefined, email |-> Undefined],
     createdAt |-> "t1", updatedAt |-> "t2", viewCount |-> [defined |-> FALSE, n |-> 0],
     tags |-> <<>>, summary |-> [rows |-> 0],
     content |-> StringContent(<<[raw |-> <<>>, rows |-> 1]>>)]

RenderIdle ==
    /\ article = IdleArticle /\ stored = IdleArticle
    /\ outputPath = "null" /\ fsOk = TRUE /\ pc = "idle" /\ index = 0 /\ tagY = 0
    /\ doc = NoDoc
    /\ stream = [delivered |-> 0, endFired |-> FALSE, destroyed |-> FALSE]
    /\ chunks = <<>> /\ promise = Pending /\ thrown = "none" /\ uncaught = "none"
    /\ file = <<>> /\ response = NoResponse /\ fwdPages = 0

InitFilename ==
    /\ fnTitle \in Titles
    /\ fnCalls = <<>>
    /\ ClassifyIdle
    /\ RenderIdle
    /\ ConcurrentIdle
    /\ ApiIdle
    /\ HandlersIdle
    /\ SaveIdle

\* one call of pdfService.generateFilename(article); the route calls it once per
\* export, and exports of one article repeat
GenerateFilename ==
    /\ Len(fnCalls) < 2
    /\ \E now \in Nows :
         fnCalls' = Append(fnCalls, [now |-> now, result |-> generateFilename(fnTitle, now)])
    /\ UNCHANGED fnTitle
    /\ UNCHANGED mdVars
    /\ UNCHANGED pdfVars
    /\ UNCHANGED <<twoVars, apiVars, hVars, tVars>>

NextFilename == GenerateFilename

SpecFilename == InitFilename /\ [][NextFilename]_vars

----------------------------------------------------------------------------
(* Spec: one call of PDFService.generateArticlePDF, and the export route     *)
(* awaiting it when no output path is given                                   *)

MaxLines == 2
MaxTags == 2

\* rows of a long paragraph: most of a page at 10 pt
LongRows == 40

Heading == <<"#", " ", "a">>
BoldLine == <<"a", " ", "*", "*", "b", "*", "*">>
Paragraph == <<"a", " ", "b">>

\* an element of content.split('\n') with the rows its text takes when drawn
ContentItems ==
    {[raw |-> r, rows |-> 1] : r \in {<<>>, Heading, BoldLine, Paragraph}}
    \cup {[raw |-> Paragraph, rows |-> LongRows]}

RECURSIVE SeqsUpTo(_, _)
SeqsUpTo(S, n) ==
    IF n = 0 THEN {<<>>}
    ELSE LET shorter == SeqsUpTo(S, n - 1)
         IN  shorter \cup {Append(q, e) : q \in shorter, e \in S}

\* "#js" and "#" followed by thirty "m": widths in Helvetica and Helvetica-Bold
Tags == {[units |-> 1278, boldUnits |-> 1390], [units |-> 25546, boldUnits |-> 27226]}

Ada == [defined |-> TRUE, name |-> Opt(<<"A", "d", "a">>),
        email |-> Opt(<<"a", "@", "x">>)]

\* createdBy as populate leaves it: null, or a user with or without name, email
Authors ==
    { [defined |-> FALSE, name |-> Undefined, email |-> Undefined],
      Ada,
      [Ada EXCEPT !.name = Undefined],
      [Ada EXCEPT !.email = Undefined],
      [Ada EXCEPT !.name = Opt(<<>>)] }

ViewCounts == {[defined |-> FALSE, n |-> 0], [defined |-> TRUE, n |-> 0],
               [defined |-> TRUE, n |-> 12]}

OneLine == StringContent(<<[raw |-> Paragraph, rows |-> 1]>>)

\* the articles rendered: every layout with one author and view count, and one
\* layout with every author and view count
Articles ==
    [title : {[rows |-> 1]},
     createdBy : {Ada}, createdAt : {"t1"}, updatedAt : {"t2"},
     viewCount : {[defined |-> TRUE, n |-> 12]},
     tags : SeqsUpTo(Tags, MaxTags),
     summary : {[rows |-> 0], [rows |-> 2]},
     content : {StringContent(ls) : ls \in SeqsUpTo(ContentItems, MaxLines) \ {<<>>}}
               \cup {NoContent}]
    \cup
    [title : {[rows |-> 1]},
     createdBy : Authors, createdAt : {"t1"}, updatedAt : {"t2"},
     viewCount : ViewCounts,
     tags : {<<>>}, summary : {[rows |-> 0]}, content : {OneLine}]

Init ==
    /\ article \in Articles
    /\ stored = article
    /\ \E o \in {<<"null", TRUE>>, <<"/tmp/a.pdf", TRUE>>, <<"/tmp/a.pdf", FALSE>>} :
          outputPath = o[1] /\ fsOk = o[2]
    /\ pc = "start" /\ index = 0 /\ tagY = 0
    /\ doc = NoDoc
    /\ stream = [delivered |-> 0, endFired |-> FALSE, destroyed |-> FALSE]
    /\ chunks = <<>> /\ promise = Pending /\ thrown = "none" /\ uncaught = "none"
    /\ file = <<>> /\ response = NoResponse /\ fwdPages = 0
    /\ FilenameIdle
    /\ ClassifyIdle
    /\ ConcurrentIdle
    /\ ApiIdle
    /\ HandlersIdle
    /\ SaveIdle

\* resolve(value) and reject(error): a settled promise stays as it is
Resolve(p, buffer, path) ==
    IF p.state = "pending"
    THEN [state |-> "resolved", buffer |-> buffer, filePath |-> path, error |-> "none"]
    ELSE p

Reject(p, error) ==
    IF p.state = "pending"
    THEN [state |-> "rejected", buffer |-> <<>>, filePath |-> "null", error |-> error]
    ELSE p

CatchIgnored(p, error) == p

\* catch (error) { reject(error) }
Catch(p, error) == Reject(p, error)

\* the listener of 'end': Buffer.concat(chunks), the write when a path is given
\* (an error of writeFileSync leaves the listener), then resolve
EndHandler(cs, path, ok, p) ==
    IF path # "null"
    THEN IF ok
         THEN [promise |-> Resolve(p, cs, path),
               file |-> cs, uncaught |-> "none"]
         ELSE [promise |-> p, file |-> <<>>, uncaught |-> "EACCES"]
    ELSE [promise |-> Resolve(p, cs, "null"), file |-> <<>>, uncaught |-> "none"]

\* one statement of the try block has run: r is what it returned
Step(r, next) ==
    /\ doc' = r.doc
    /\ IF r.err = "none"
       THEN pc' = next /\ UNCHANGED <<promise, thrown>>
       ELSE pc' = "returned" /\ thrown' = r.err /\ promise' = Catch(promise, r.err)

\* new PDFDocument(..), chunks = [], doc.on('data' | 'end' | 'error', ..)
Construct ==
    /\ pc = "start"
    /\ doc' = NewDocument
    /\ pc' = "addHeader"
    /\ UNCHANGED <<article, stored, outputPath, fsOk, index, tagY, stream, chunks, promise, thrown,
                   uncaught, file, response, fwdPages>>
    /\ UNCHANGED <<fnVars, mdVars, twoVars, apiVars, hVars, tVars>>

AddHeader ==
    /\ pc = "addHeader"
    /\ Step(addHeader(doc, article), "addMetadata")
    /\ UNCHANGED <<article, stored, outputPath, fsOk, index, tagY, stream, chunks, uncaught, file,
                   response, fwdPages>>
    /\ UNCHANGED <<fnVars, mdVars, twoVars, apiVars, hVars, tVars>>

\* the box is drawn and the view is counted on the record
AddMetadataCounting ==
    /\ pc = "addMetadata"
    /\ Step(Ok(MetadataBox(doc)), "metadataRows")
    /\ index' = 0
    /\ article' = [article EXCEPT !.viewCount = [defined |-> TRUE, n |-> @.n + 1]]
    /\ UNCHANGED <<stored, outputPath, fsOk, tagY, stream, chunks, uncaught, file,
                   response, fwdPages>>
    /\ UNCHANGED <<fnVars, mdVars, twoVars, apiVars, hVars, tVars>>

\* addMetadata: the box
AddMetadata ==
    /\ pc = "addMetadata"
    /\ Step(Ok(MetadataBox(doc)), "metadataRows")
    /\ index' = 0
    /\ UNCHANGED <<article, stored, outputPath, fsOk, tagY, stream, chunks, uncaught, file,
                   response, fwdPages>>
    /\ UNCHANGED <<fnVars, mdVars, twoVars, apiVars, hVars, tVars>>

\* addMetadata: one turn of metadata.forEach; after the last row the pen is
\* moved down and the label of the tags drawn
AddMetadataRow ==
    /\ pc = "metadataRows"
    /\ LET d == MetadataRow(doc, article, index)
           last == index + 1 = Len(MetadataLabels)
           d1 == IF last THEN TagsLabel(d, article) ELSE d
       IN  /\ Step(Ok(d1), IF ~last THEN "metadataRows"
                           ELSE IF Len(article.tags) > 0 THEN "tags" ELSE "metadataEnd")
           /\ index' = IF last THEN 0 ELSE index + 1
           /\ tagY' = IF last THEN d1.y ELSE tagY
    /\ UNCHANGED <<article, stored, outputPath, fsOk, stream, chunks, uncaught, file,
                   response, fwdPages>>
    /\ UNCHANGED <<fnVars, mdVars, twoVars, apiVars, hVars, tVars>>

\* addMetadata: one turn of article.tags.forEach
AddTagChip ==
    /\ pc = "tags"
    /\ LET r == TagChip(doc, article.tags[index + 1], index + 1, tagY)
           last == index + 1 = Len(article.tags)
       IN  /\ Step(Ok(r.doc), IF last THEN "metadataEnd" ELSE "tags")
           /\ tagY' = r.tagY
           /\ index' = IF last THEN 0 ELSE index + 1
    /\ UNCHANGED <<article, stored, outputPath, fsOk, stream, chunks, uncaught, file,
                   response, fwdPages>>
    /\ UNCHANGED <<fnVars, mdVars, twoVars, apiVars, hVars, tVars>>

\* addMetadata: its last statements
AddMetadataEnd ==
    /\ pc = "metadataEnd"
    /\ Step(Ok(MetadataEnd(doc, article, tagY)), "addContent")
    /\ UNCHANGED <<article, stored, outputPath, fsOk, index, tagY, stream, chunks, uncaught, file,
                   response, fwdPages>>
    /\ UNCHANGED <<fnVars, mdVars, twoVars, apiVars, hVars, tVars>>

\* the pages there are when the forward pass is over
ForwardDone(d, more) == IF more THEN 0 ELSE Len(d.pages)

AddContent ==
    /\ pc = "addContent"
    /\ LET r == addContent(doc, article)
       IN  Step(r, "lines")
    /\ UNCHANGED <<article, stored, outputPath, fsOk, index, tagY, stream, chunks, uncaught, file,
                   response, fwdPages>>
    /\ UNCHANGED <<fnVars, mdVars, twoVars, apiVars, hVars, tVars>>

\* one turn of lines.forEach in processMarkdownContent
ProcessContentLine ==
    /\ pc = "lines"
    /\ LET d == ContentLine(doc, article.content.lines[index + 1], index + 1)
           last == index + 1 = Len(article.content.lines)
       IN  /\ Step(Ok(d), IF last THEN "addFooter" ELSE "lines")
           /\ fwdPages' = ForwardDone(d, ~last)
    /\ index' = index + 1
    /\ UNCHANGED <<article, stored, outputPath, fsOk, tagY, stream, chunks, uncaught, file, response>>
    /\ UNCHANGED <<fnVars, mdVars, twoVars, apiVars, hVars, tVars>>

\* the footer pass open to start while lines.forEach is under way
AddFooterEarly ==
    /\ pc \in {"lines", "addFooter"}
    /\ Step(addFooter(doc, article), IF pc = "lines" THEN "lines" ELSE "end")
    /\ UNCHANGED <<article, stored, outputPath, fsOk, index, tagY, stream, chunks, uncaught, file,
                   response, fwdPages>>
    /\ UNCHANGED <<fnVars, mdVars, twoVars, apiVars, hVars, tVars>>

AddFooter ==
    /\ pc = "addFooter"
    /\ Step(addFooter(doc, article), "end")
    /\ UNCHANGED <<article, stored, outputPath, fsOk, index, tagY, stream, chunks, uncaught, file,
                   response, fwdPages>>
    /\ UNCHANGED <<fnVars, mdVars, twoVars, apiVars, hVars, tVars>>

\* doc.end(), the last statement of the try block
End ==
    /\ pc = "end"
    /\ doc' = DocEnd(doc)
    /\ pc' = "returned"
    /\ UNCHANGED <<article, stored, outputPath, fsOk, index, tagY, stream, chunks, promise, thrown,
                   uncaught, file, response, fwdPages>>
    /\ UNCHANGED <<fnVars, mdVars, twoVars, apiVars, hVars, tVars>>

\* the stream hands the next chunk written to the listener of 'data'; the
\* stream starts to flow on the tick after the executor has returned
DataEvent ==
    /\ pc = "returned"
    /\ ~stream.destroyed
    /\ stream.delivered < Len(doc.pushed)
    /\ chunks' = Append(chunks, doc.pushed[stream.delivered + 1])
    /\ stream' = [stream EXCEPT !.delivered = @ + 1]
    /\ UNCHANGED <<article, stored, outputPath, fsOk, pc, index, tagY, doc, promise, thrown, uncaught,
                   file, response, fwdPages>>
    /\ UNCHANGED <<fnVars, mdVars, twoVars, apiVars, hVars, tVars>>

\* 'end': every chunk has been handed over and the document was ended
EndEvent ==
    /\ pc = "returned"
    /\ ~stream.destroyed /\ ~stream.endFired
    /\ doc.ended
    /\ stream.delivered = Len(doc.pushed)
    /\ stream' = [stream EXCEPT !.endFired = TRUE]
    /\ LET r == EndHandler(chunks, outputPath, fsOk, promise)
       IN  promise' = r.promise /\ file' = r.file /\ uncaught' = r.uncaught
    /\ UNCHANGED <<article, stored, outputPath, fsOk, pc, index, tagY, doc, chunks, thrown, response,
                   fwdPages>>
    /\ UNCHANGED <<fnVars, mdVars, twoVars, apiVars, hVars, tVars>>

\* 'error': the stream is destroyed with an error; its listener is reject
ErrorEvent ==
    /\ pc = "returned"
    /\ ~stream.destroyed /\ ~stream.endFired
    /\ stream' = [stream EXCEPT !.destroyed = TRUE]
    /\ promise' = Reject(promise, "stream error")
    /\ UNCHANGED <<article, stored, outputPath, fsOk, pc, index, tagY, doc, chunks, thrown, uncaught,
                   file, response, fwdPages>>
    /\ UNCHANGED <<fnVars, mdVars, twoVars, apiVars, hVars, tVars>>

\* GET /:id/export/pdf after the await: the buffer is sent, or the catch block
\* answers 500
RouteRespond ==
    /\ outputPath = "null"
    /\ response = NoResponse
    /\ promise.state # "pending"
    /\ response' = IF promise.state = "resolved"
                   THEN [status |-> 200, contentType |-> "application/pdf",
                         body |-> promise.buffer, error |-> "none"]
                   ELSE [status |-> 500, contentType |-> "application/json",
                         body |-> <<>>, error |-> promise.error]
    /\ UNCHANGED <<article, stored, outputPath, fsOk, pc, index, tagY, doc, stream, chunks, promise,
                   thrown, uncaught, file, fwdPages>>
    /\ UNCHANGED <<fnVars, mdVars, twoVars, apiVars, hVars, tVars>>

Next ==
    \/ Construct
    \/ AddHeader
    \/ AddMetadata
    \/ AddMetadataRow
    \/ AddTagChip
    \/ AddMetadataEnd
    \/ AddContent
    \/ ProcessContentLine
    \/ AddFooter
    \/ End
    \/ DataEvent
    \/ EndEvent
    \/ ErrorEvent
    \/ RouteRespond

Spec == Init /\ [][Next]_vars

----------------------------------------------------------------------------
(* SpecLive: generateArticlePDF with the steps the event loop owes            *)

\* a one-page article with and without tags, an article of two pages, and an
\* article whose content is no string
LiveArticles ==
    {a \in Articles :
        /\ a.createdBy = Ada /\ a.viewCount.defined /\ a.summary.rows = 0
        /\ \/ a.content = OneLine /\ Len(a.tags) \in {0, 2} /\ (Len(a.tags) = 2 => a.tags[1] = a.tags[2])
           \/ a.content = NoContent /\ a.tags = <<>>
           \/ /\ a.content = StringContent(<<[raw |-> Paragraph, rows |-> LongRows],
                                              [raw |-> Paragraph, rows |-> LongRows]>>)
              /\ a.tags = <<>>}

InitLive == Init /\ article \in LiveArticles

\* the executor of the promise is synchronous code; once it has returned, the
\* event loop hands over every chunk written and then 'end'.  An 'error' event
\* and the route's answer are not owed.
SpecLive ==
    /\ InitLive
    /\ [][Next]_vars
    /\ WF_vars(DataEvent)
    /\ WF_vars(EndEvent)

----------------------------------------------------------------------------
(* SpecTags: generateArticlePDF on articles that differ in their tags         *)

MaxChips == 3

\* "#" followed by sixty "m": wider than a line in Helvetica 9 and in
\* Helvetica-Bold 10
WideTag == [units |-> 50536, boldUnits |-> 53896]

\* "#" followed by twenty-two "m"
MidTag == [units |-> 18882, boldUnits |-> 20114]

TagKinds == Tags \cup {MidTag, WideTag}

TagArticles ==
    [title : {[rows |-> 1]},
     createdBy : {Ada}, createdAt : {"t1"}, updatedAt : {"t2"},
     viewCount : {[defined |-> TRUE, n |-> 12]},
     tags : SeqsUpTo(TagKinds, MaxChips),
     summary : {[rows |-> 0]}, content : {OneLine}]

InitTags ==
    /\ article \in TagArticles
    /\ stored = article
    /\ outputPath = "null" /\ fsOk = TRUE
    /\ pc = "start" /\ index = 0 /\ tagY = 0
    /\ doc = NoDoc
    /\ stream = [delivered |-> 0, endFired |-> FALSE, destroyed |-> FALSE]
    /\ chunks = <<>> /\ promise = Pending /\ thrown = "none" /\ uncaught = "none"
    /\ file = <<>> /\ response = NoResponse /\ fwdPages = 0
    /\ FilenameIdle
    /\ ClassifyIdle
    /\ ConcurrentIdle
    /\ ApiIdle
    /\ HandlersIdle
    /\ SaveIdle

SpecTags == InitTags /\ [][Next]_vars

----------------------------------------------------------------------------
(* SpecConcurrent: two calls of generateArticlePDF on the one PDFService *)

MaxChunks == 3

\* the chunks the document of call c writes: each bears the document it is of
ChunksOfDoc(c, n) == [k \in 1..n |-> [doc |-> c, no |-> k]]

ChunkListShared(c) == 1

\* the array the 'data' and 'end' listeners of call c hold: const chunks = []
\* of the executor of that call
ChunkList(c) == c

InitConcurrent ==
    /\ ConcurrentIdle
    /\ FilenameIdle
    /\ ClassifyIdle
    /\ RenderIdle
    /\ ApiIdle
    /\ HandlersIdle
    /\ SaveIdle

\* the promise executor of call c, which runs to its end without a pause: the
\* document is made with the margin of the service, the listeners are put on
\* it, the document writes n chunks, and doc.end() is reached or a step throws
CallRender(c) ==
    /\ renders[c].pc = "idle"
    /\ \E n \in 1..MaxChunks : \E threw \in BOOLEAN :
          renders' = [renders EXCEPT ![c] =
              [@ EXCEPT !.pc = "returned",
                        !.pushed = ChunksOfDoc(c, n),
                        !.ended = ~threw,
                        !.promise = IF threw THEN Catch(@, "TypeError") ELSE @]]
    /\ service.defaultMargin = DocOptions.margin
    /\ UNCHANGED service
    /\ UNCHANGED <<fnVars, mdVars, pdfVars, apiVars, hVars, tVars>>

\* 'data' on the document of call c
DataEventOf(c) ==
    /\ renders[c].pc = "returned"
    /\ renders[c].delivered < Len(renders[c].pushed)
    /\ LET chunk == renders[c].pushed[renders[c].delivered + 1]
           to == ChunkList(c)
       IN  renders' = [[renders EXCEPT ![c].delivered = @ + 1]
                          EXCEPT ![to].chunks = Append(@, chunk)]
    /\ UNCHANGED service
    /\ UNCHANGED <<fnVars, mdVars, pdfVars, apiVars, hVars, tVars>>

\* 'end' on the document of call c
EndEventOf(c) ==
    /\ renders[c].pc = "returned"
    /\ renders[c].ended /\ ~renders[c].endFired
    /\ renders[c].delivered = Len(renders[c].pushed)
    /\ renders' = [renders EXCEPT
          ![c].endFired = TRUE,
          ![c].promise = EndHandler(renders[ChunkList(c)].chunks, "null", TRUE, @).promise]
    /\ UNCHANGED service
    /\ UNCHANGED <<fnVars, mdVars, pdfVars, apiVars, hVars, tVars>>

NextConcurrent ==
    \E c \in Calls :
        \/ CallRender(c)
        \/ DataEventOf(c)
        \/ EndEventOf(c)

SpecConcurrent == InitConcurrent /\ [][NextConcurrent]_vars

\* C15: with two calls under way on the one service, under every order of their
\* 'data' and 'end' events, the array of a call holds chunks of that call's
\* document only, the buffer a call resolves with is all the chunks its document
\* wrote, in the order written, and the fields of the service stay as constructed.
C15_RendersIndependent ==
    /\ \A c \in Calls :
          /\ \A k \in 1..Len(renders[c].chunks) : renders[c].chunks[k].doc = c
          /\ renders[c].chunks = SubSeq(renders[c].pushed, 1, renders[c].delivered)
          /\ renders[c].promise.state = "resolved" =>
                renders[c].promise.buffer = renders[c].pushed
    /\ service = NewService

\* call 1 has resolved while call 2 is in the middle of its chunks
C15_Witness ==
    /\ renders[1].promise.state = "resolved"
    /\ Len(renders[1].promise.buffer) >= 2
    /\ renders[2].delivered >= 1
    /\ renders[2].delivered < Len(renders[2].pushed)

----------------------------------------------------------------------------
(* SpecApi: requests to the Express application of server.js *)

\* at most MaxOther requests that do not run the summarize handler and at most
\* MaxRuns that do; the clock goes as far as one window of the LLM limiter
MaxOther == 1
MaxRuns == 6

\* a token: none, one jwt.verify rejects, one that has expired, or one signed
\* for the user id sub ("ghost" is the id of no user)
Tokens ==
    {NoToken, [kind |-> "garbage", sub |-> "none"], [kind |-> "expired", sub |-> "alice"]}
    \cup {[kind |-> "valid", sub |-> u] : u \in UserIds \cup {"ghost"}}

\* the token cookie and the Authorization: Bearer header of a request
Credentials ==
    {[cookie |-> t, bearer |-> NoToken] : t \in Tokens}
    \cup {[cookie |-> NoToken, bearer |-> [kind |-> "valid", sub |-> u]] :
              u \in {"alice", "root"}}

Routes ==
    {"GET /api/auth/profile", "PUT /api/articles/:id", "DELETE /api/articles/:id",
     "POST /api/articles/:id/summarize", "GET /api/articles/:id/summarize"}

\* req.body of a PUT: the three fields given and valid, or a title too short
Bodies == {"valid", "invalid"}

\* the requests made: every credential on the routes that change or show an
\* account or an article, a member's cookie or none on the summarize path
Requests ==
    {[route |-> r, ip |-> ip, cookie |-> c.cookie, bearer |-> c.bearer, id |-> a,
      body |-> IF r = "PUT /api/articles/:id" THEN b ELSE "none"] :
        r \in Routes, ip \in Ips, c \in Credentials, a \in ArticleIds, b \in Bodies}
    \ {q \in [route : Routes, ip : Ips, cookie : Tokens, bearer : Tokens,
               id : ArticleIds, body : {"none"}] :
            /\ q.route \in {"POST /api/articles/:id/summarize",
                             "GET /api/articles/:id/summarize"}
            /\ ~(q.bearer = NoToken /\ q.cookie \in {NoToken, [kind |-> "valid", sub |-> "bob"]})}

\* a middleware's result: status 0 is next(), another status is the answer sent
Pass(user) == [status |-> 0, error |-> "none", user |-> user]
Answer(status, error) == [status |-> status, error |-> error, user |-> "none"]

\* authenticateToken: the token is read from the cookie only
authenticateToken(req) ==
    LET token == req.cookie
    IN  IF token.kind = "none" THEN Answer(401, "Access token required")
        ELSE IF token.kind = "expired" THEN Answer(401, "Token expired")
        ELSE IF token.kind = "garbage" THEN Answer(401, "Invalid token")
        ELSE IF token.sub \notin UserIds THEN Answer(401, "User not found")
        ELSE IF ~Users[token.sub].isActive THEN Answer(401, "Account deactivated")
        ELSE Pass(token.sub)

requireAdminSkipped(user) == Pass(user)

\* requireAdmin
requireAdmin(user) ==
    IF Users[user].role # "admin" THEN Answer(403, "Admin access required")
    ELSE Pass(user)

\* Article.findById(id).populate('createdBy', 'name email'): createdBy becomes
\* the user document, or null when there is no such user
Populate(found) ==
    [found EXCEPT !.createdBy =
        IF @ \in UserIds THEN [populated |-> TRUE, id |-> @]
        ELSE [populated |-> FALSE, id |-> "null"]]

\* getArticleAndCheckOwnership: the article is looked up, nothing is checked
getArticleAndCheckOwnership(db, id) ==
    IF id \in ArticleIds /\ db[id].exists
    THEN [status |-> 0, error |-> "none", resource |-> Populate(db[id])]
    ELSE [status |-> 404, error |-> "Article not found", resource |-> Populate(InitialArticles["a1"])]

\* ObjectId.prototype.toString(): the hexadecimal id
IdToString(id) == <<id>>

\* Document.prototype.toString() of a populated document: the text inspect
\* gives for the document, with its fields
DocToString(d) == <<"{ _id: ", d.id, ", name: ", d.id, ", email: ", d.id, " }">>

\* requireOwnershipOrAdmin('createdBy')
requireOwnershipOrAdmin(user, resource) ==
    LET isAdmin == Users[user].role = "admin"
        isOwner == /\ resource.createdBy.populated
                   /\ DocToString(resource.createdBy) = IdToString(user)
    IN  IF ~isAdmin /\ ~isOwner
        THEN Answer(403, "Access denied. You can only modify your own resources.")
        ELSE Pass(user)

\* express-rate-limit: the hit is counted in the window under way, and the
\* request is refused when the count passes max
Limit(store, ip, max, windowS, now) ==
    LET cur == IF now >= store[ip].resetAt
               THEN [count |-> 0, resetAt |-> now + windowS]
               ELSE store[ip]
        n == cur.count + 1
    IN  [store |-> [store EXCEPT ![ip] = [cur EXCEPT !.count = n]], refused |-> n > max]

ApiMax == 100
ApiWindow == 900
LlmMax == 5
LlmWindow == 60

\* what a layer of the application gives: the answer, and the collections and
\* stores after it
Layer(status, error, handler, db, h, rs) ==
    [status |-> status, error |-> error, handler |-> handler, db |-> db, hits |-> h,
     runs |-> rs]

\* router.get('/profile', authenticateToken, ..)
Profile(req, db, h, rs) ==
    LET auth == authenticateToken(req)
    IN  IF auth.status # 0 THEN Layer(auth.status, auth.error, FALSE, db, h, rs)
        ELSE Layer(200, "none", TRUE, db, h, rs)

\* router.put('/:id', ..)
PutArticle(req, db, h, rs) ==
    LET auth == authenticateToken(req)
        got == getArticleAndCheckOwnership(db, req.id)
        own == requireOwnershipOrAdmin(auth.user, got.resource)
    IN  IF auth.status # 0 THEN Layer(auth.status, auth.error, FALSE, db, h, rs)
        ELSE IF got.status # 0 THEN Layer(got.status, got.error, FALSE, db, h, rs)
        ELSE IF own.status # 0 THEN Layer(own.status, own.error, FALSE, db, h, rs)
        ELSE IF req.body = "invalid" THEN Layer(400, "Validation failed", FALSE, db, h, rs)
        ELSE Layer(200, "none", TRUE,
                   [db EXCEPT ![req.id].title = "T2", ![req.id].content = "C2",
                              ![req.id].tags = "G2"], h, rs)

\* router.delete('/:id', ..)
DeleteArticle(req, db, h, rs) ==
    LET auth == authenticateToken(req)
        adm == requireAdmin(auth.user)
        got == getArticleAndCheckOwnership(db, req.id)
    IN  IF auth.status # 0 THEN Layer(auth.status, auth.error, FALSE, db, h, rs)
        ELSE IF adm.status # 0 THEN Layer(adm.status, adm.error, FALSE, db, h, rs)
        ELSE IF got.status # 0 THEN Layer(got.status, got.error, FALSE, db, h, rs)
        ELSE Layer(200, "none", TRUE, [db EXCEPT ![req.id].exists = FALSE], h, rs)

\* router.post('/:id/summarize', ..); llmOk is whether llmService.summarize
\* returns
Summarize(req, db, h, rs, now, llmOk) ==
    LET auth == authenticateToken(req)
        got == getArticleAndCheckOwnership(db, req.id)
        ran == Append(rs, [ip |-> req.ip, at |-> now])
        at == got.resource.summarizedAt
    IN  IF auth.status # 0 THEN Layer(auth.status, auth.error, FALSE, db, h, rs)
        ELSE IF got.status # 0 THEN Layer(got.status, got.error, FALSE, db, h, rs)
        ELSE IF at >= 0 /\ at > now - 3600
             THEN Layer(429, "Article was recently summarized", TRUE, db, h, ran)
        ELSE IF ~llmOk THEN Layer(500, "Failed to generate summary", TRUE, db, h, ran)
        ELSE Layer(200, "none", TRUE,
                   [db EXCEPT ![req.id].summary = "S", ![req.id].summarizedAt = now],
                   h, ran)

\* the article router, mounted at /api/articles: it answers the requests its
\* routes match, and hands on the others
ArticleRoutes(req, db, h, rs, now, llmOk) ==
    CASE req.route = "PUT /api/articles/:id" -> PutArticle(req, db, h, rs)
      [] req.route = "DELETE /api/articles/:id" -> DeleteArticle(req, db, h, rs)
      [] req.route = "POST /api/articles/:id/summarize" ->
             Summarize(req, db, h, rs, now, llmOk)
      [] OTHER -> Layer(0, "none", FALSE, db, h, rs)

\* the layers of the application in the order of the app.use calls
Stack == <<"limiter", "authRoutes", "articleRoutes", "llmLimiter", "notFound">>

IsSummarizePath(req) ==
    req.route \in {"POST /api/articles/:id/summarize", "GET /api/articles/:id/summarize"}

\* layer i of the stack on a request that the layers before have handed on
RunLayer(i, req, db, h, rs, now, llmOk) ==
    CASE Stack[i] = "limiter" ->
             LET l == Limit(h.api, req.ip, ApiMax, ApiWindow, now)
             IN  Layer(IF l.refused THEN 429 ELSE 0, "Too many requests", FALSE, db,
                       [h EXCEPT !.api = l.store], rs)
      [] Stack[i] = "authRoutes" ->
             IF req.route = "GET /api/auth/profile" THEN Profile(req, db, h, rs)
             ELSE Layer(0, "none", FALSE, db, h, rs)
      [] Stack[i] = "articleRoutes" -> ArticleRoutes(req, db, h, rs, now, llmOk)
      [] Stack[i] = "llmLimiter" ->
             IF IsSummarizePath(req)
             THEN LET l == Limit(h.llm, req.ip, LlmMax, LlmWindow, now)
                  IN  Layer(IF l.refused THEN 429 ELSE 0,
                            "Too many summarization requests", FALSE, db,
                            [h EXCEPT !.llm = l.store], rs)
             ELSE Layer(0, "none", FALSE, db, h, rs)
      [] OTHER -> Layer(404, "Route not found", FALSE, db, h, rs)

RECURSIVE Serve(_, _, _, _, _, _, _)
\* the request goes down the stack from layer i until a layer answers
Serve(i, req, db, h, rs, now, llmOk) ==
    LET r == RunLayer(i, req, db, h, rs, now, llmOk)
    IN  IF r.status # 0 \/ i = Len(Stack) THEN r
        ELSE Serve(i + 1, req, r.db, r.hits, r.runs, now, llmOk)

InitApi ==
    /\ ApiIdle
    /\ HandlersIdle
    /\ SaveIdle
    /\ FilenameIdle
    /\ ClassifyIdle
    /\ RenderIdle
    /\ ConcurrentIdle

\* one request, from its arrival to its answer
Request ==
    /\ \E req \in Requests : \E llmOk \in BOOLEAN :
          \E r \in {Serve(1, req, dbArticles, hits, runs, clock, llmOk)} :
              /\ dbArticles' = r.db
              /\ hits' = r.hits
              /\ runs' = r.runs
              /\ apiLast' = [route |-> req.route, ip |-> req.ip, cookie |-> req.cookie,
                             bearer |-> req.bearer, id |-> req.id, body |-> req.body,
                             status |-> r.status, error |-> r.error,
                             handler |-> r.handler]
              /\ Len(r.runs) <= MaxRuns
              /\ r.hits.api[req.ip].count - Len(r.runs) <= MaxOther
    /\ UNCHANGED clock
    /\ UNCHANGED <<fnVars, mdVars, pdfVars, twoVars, hVars, tVars>>

\* time passes
Tick ==
    /\ clock < LlmWindow
    /\ clock' = clock + LlmWindow
    /\ UNCHANGED <<dbArticles, hits, apiLast, runs>>
    /\ UNCHANGED <<fnVars, mdVars, pdfVars, twoVars, hVars, tVars>>

NextApi == Request \/ Tick

SpecApi == InitApi /\ [][NextApi]_vars

----------------------------------------------------------------------------
(* SpecHandlers: GET /api/articles/:id and POST /api/articles/:id/summarize  *)
(* for one article, handled concurrently: every await of a handler lets the   *)
(* other requests run                                                         *)

MaxServed == 3
MaxTime == 3

\* 60 * 60 * 1000 ms, in half hours
OneHour == 2

\* req.user as optionalAuth or authenticateToken leaves it: "none" is no user
Readers == {"none", "alice", "bob"}
Members == {"alice", "bob"}

\* articleSchema.methods.incrementViewCount, up to the save
incrementViewCount(d) == [d EXCEPT !.viewCount = @ + 1]

\* document.save(): the paths modified since the load are written, the others
\* are left as the database holds them
SaveModified(stored_, d, paths) ==
    [f \in DOMAIN stored_ |-> IF f \in paths THEN d[f] ELSE stored_[f]]

\* GET /:id: the test before incrementViewCount
CountsView(user, d) == user = "none" \/ user # d.createdBy

\* POST /:id/summarize: article.summarizedAt && article.summarizedAt > oneHourAgo
RecentlySummarized(d, t) == d.summarizedAt # -1 /\ d.summarizedAt > t - OneHour

InitHandlers ==
    /\ HandlersIdle
    /\ SaveIdle
    /\ FilenameIdle
    /\ ClassifyIdle
    /\ RenderIdle
    /\ ConcurrentIdle
    /\ ApiIdle

Answered(h, status) ==
    Append(answered, [slot |-> h, route |-> inflight[h].route,
                      user |-> inflight[h].user, status |-> status])

\* a request arrives and passes optionalAuth (GET) or authenticateToken (POST)
Arrive(h) ==
    /\ inflight[h].pc = "idle"
    /\ Len(answered) + Cardinality({k \in Slots : inflight[k].pc # "idle"}) < MaxServed
    /\ \E route \in {"GET", "SUMMARIZE"} :
       \E user \in (IF route = "GET" THEN Readers ELSE Members) :
          inflight' = [inflight EXCEPT ![h] =
                          [pc |-> "load", route |-> route, user |-> user, doc |-> NewArticle]]
    /\ UNCHANGED <<dbDoc, dateNow, stores, checks, answered>>
    /\ UNCHANGED <<fnVars, mdVars, pdfVars, twoVars, apiVars, tVars>>

\* getArticleAndCheckOwnership: the query is answered with the article as stored
Load(h) ==
    /\ inflight[h].pc = "load"
    /\ inflight' = [inflight EXCEPT ![h].pc = "handle", ![h].doc = dbDoc]
    /\ UNCHANGED <<dbDoc, dateNow, stores, checks, answered>>
    /\ UNCHANGED <<fnVars, mdVars, pdfVars, twoVars, apiVars, tVars>>

\* GET /:id up to the await of incrementViewCount, or to the answer
HandleGet(h) ==
    /\ inflight[h].pc = "handle" /\ inflight[h].route = "GET"
    /\ IF CountsView(inflight[h].user, inflight[h].doc)
       THEN /\ inflight' = [inflight EXCEPT ![h].pc = "save",
                                            ![h].doc = incrementViewCount(@)]
            /\ UNCHANGED answered
       ELSE /\ inflight' = [inflight EXCEPT ![h] = IdleSlot]
            /\ answered' = Answered(h, 200)
    /\ UNCHANGED <<dbDoc, dateNow, stores, checks>>
    /\ UNCHANGED <<fnVars, mdVars, pdfVars, twoVars, apiVars, tVars>>

\* POST /:id/summarize up to the await of llmService.summarize, or to the 429
HandleSummarize(h) ==
    /\ inflight[h].pc = "handle" /\ inflight[h].route = "SUMMARIZE"
    /\ LET recent == RecentlySummarized(inflight[h].doc, dateNow)
       IN  /\ checks' = Append(checks, [slot |-> h, at |-> dateNow,
                                        stored |-> Len(stores), passed |-> ~recent])
           /\ IF recent
              THEN /\ inflight' = [inflight EXCEPT ![h] = IdleSlot]
                   /\ answered' = Answered(h, 429)
              ELSE /\ inflight' = [inflight EXCEPT ![h].pc = "llm"]
                   /\ UNCHANGED answered
    /\ UNCHANGED <<dbDoc, dateNow, stores>>
    /\ UNCHANGED <<fnVars, mdVars, pdfVars, twoVars, apiVars, tVars>>

\* llmService.summarize returns or throws; the summary, new Date() and the
\* provider are set on the document
LlmReturn(h) ==
    /\ inflight[h].pc = "llm"
    /\ \E ok \in BOOLEAN :
          IF ok
          THEN /\ inflight' = [inflight EXCEPT
                                  ![h].pc = "save",
                                  ![h].doc = [@ EXCEPT !.summary = @ + 1,
                                                       !.summarizedAt = dateNow,
                                                       !.summarizedBy = "gemini"]]
               /\ UNCHANGED answered
          ELSE /\ inflight' = [inflight EXCEPT ![h] = IdleSlot]
               /\ answered' = Answered(h, 500)
    /\ UNCHANGED <<dbDoc, dateNow, stores, checks>>
    /\ UNCHANGED <<fnVars, mdVars, pdfVars, twoVars, apiVars, tVars>>

\* the save of the handler is done, and the request answered
Save(h) ==
    /\ inflight[h].pc = "save"
    /\ dbDoc' = SaveModified(dbDoc, inflight[h].doc,
                             IF inflight[h].route = "GET" THEN {"viewCount"}
                             ELSE {"summary", "summarizedAt", "summarizedBy"})
    /\ stores' = IF inflight[h].route = "SUMMARIZE"
                 THEN Append(stores, [slot |-> h, at |-> inflight[h].doc.summarizedAt])
                 ELSE stores
    /\ answered' = Answered(h, 200)
    /\ inflight' = [inflight EXCEPT ![h] = IdleSlot]
    /\ UNCHANGED <<dateNow, checks>>
    /\ UNCHANGED <<fnVars, mdVars, pdfVars, twoVars, apiVars, tVars>>

\* half an hour passes
HalfHour ==
    /\ dateNow < MaxTime
    /\ dateNow' = dateNow + 1
    /\ UNCHANGED <<dbDoc, inflight, stores, checks, answered>>
    /\ UNCHANGED <<fnVars, mdVars, pdfVars, twoVars, apiVars, tVars>>

NextHandlers ==
    \/ \E h \in Slots :
          \/ Arrive(h)
          \/ Load(h)
          \/ HandleGet(h)
          \/ HandleSummarize(h)
          \/ LlmReturn(h)
          \/ Save(h)
    \/ HalfHour

SpecHandlers == InitHandlers /\ [][NextHandlers]_vars

----------------------------------------------------------------------------

(* SpecSave: POST /api/articles and PUT /api/articles/:id on one article, and *)
(* the tags articleSchema.pre('save') stores                                   *)

MaxTagList == 2
MaxSaves == 3

UpperCase == <<"A", "B", "C", "D", "E", "F", "G", "H", "I", "J", "K", "L", "M",
               "N", "O", "P", "Q", "R", "S", "T", "U", "V", "W", "X", "Y", "Z">>
LowerCase == <<"a", "b", "c", "d", "e", "f", "g", "h", "i", "j", "k", "l", "m",
               "n", "o", "p", "q", "r", "s", "t", "u", "v", "w", "x", "y", "z">>

\* String.prototype.toLowerCase
toLowerCase(s) ==
    [i \in 1..Len(s) |->
        IF s[i] \in Upper THEN LowerCase[CHOOSE k \in 1..26 : UpperCase[k] = s[i]]
        ELSE s[i]]

IsNonEmpty(t) == Len(t) > 0

RECURSIVE SetOrder(_, _)
\* [...new Set(list)]: the elements in the order of their first occurrence
SetOrder(list, acc) ==
    IF list = <<>> THEN acc
    ELSE SetOrder(Tail(list),
                  IF \E i \in 1..Len(acc) : acc[i] = Head(list) THEN acc
                  ELSE Append(acc, Head(list)))

\* the hook without the Set
CleanTagsKeepingDuplicates(tags) ==
    SelectSeq([i \in 1..Len(tags) |-> toLowerCase(Trim(tags[i]))], IsNonEmpty)

\* articleSchema.pre('save'): this.tags = [...new Set(this.tags.map(tag =>
\* tag.trim().toLowerCase()).filter(tag => tag.length > 0))]
CleanTags(tags) ==
    SetOrder(SelectSeq([i \in 1..Len(tags) |-> toLowerCase(Trim(tags[i]))], IsNonEmpty),
             <<>>)

\* the setters of the schema path tags: trim, lowercase
CastTags(tags) == [i \in 1..Len(tags) |-> toLowerCase(Trim(tags[i]))]

TagsMax == 10
TagMaxLength == 30

\* body('tags').isArray({max: 10}) and body('tags.*').trim().isLength({min: 1,
\* max: 30}); an absent tags passes
TagsValid(given) ==
    ~given.defined
    \/ /\ Len(given.list) <= TagsMax
       /\ \A i \in 1..Len(given.list) :
             Len(Trim(given.list[i])) >= 1 /\ Len(Trim(given.list[i])) <= TagMaxLength

\* req.body.tags after the sanitizer trim()
Sanitized(list) == [i \in 1..Len(list) |-> Trim(list[i])]

\* tags as a client sends them
TagStrings == { <<" ">>, <<"a">>, <<"A">>, <<" ", "a">>, <<"b">>, <<"B", " ">> }

GivenTags ==
    {[defined |-> FALSE, list |-> <<>>]}
    \cup {[defined |-> TRUE, list |-> l] : l \in SeqsUpTo(TagStrings, MaxTagList)}

InitSave ==
    /\ SaveIdle
    /\ HandlersIdle
    /\ FilenameIdle
    /\ ClassifyIdle
    /\ RenderIdle
    /\ ConcurrentIdle
    /\ ApiIdle

Saved(kind, given, status) ==
    [count |-> saves.count + 1,
     last |-> [kind |-> kind, given |-> given, status |-> status, before |-> savedTags]]

\* POST /: new Article({.., tags: tags || []}) and article.save()
CreateArticle ==
    /\ saves.count = 0
    /\ \E given \in GivenTags :
          IF TagsValid(given)
          THEN /\ savedTags' = CleanTags(CastTags(IF given.defined THEN Sanitized(given.list)
                                                  ELSE <<>>))
               /\ saves' = Saved("create", given, 201)
          ELSE /\ saves' = [saves EXCEPT !.last = [kind |-> "create", given |-> given,
                                                   status |-> 400, before |-> savedTags]]
               /\ UNCHANGED savedTags
    /\ UNCHANGED <<fnVars, mdVars, pdfVars, twoVars, apiVars, hVars>>

\* PUT /:id by an admin: article.tags = tags when tags are given, article.save()
UpdateArticle ==
    /\ saves.count > 0 /\ saves.count < MaxSaves
    /\ \E given \in GivenTags :
          IF TagsValid(given)
          THEN /\ savedTags' = CleanTags(IF given.defined THEN CastTags(Sanitized(given.list))
                                         ELSE savedTags)
               /\ saves' = Saved("update", given, 200)
          ELSE /\ saves' = [saves EXCEPT !.last = [kind |-> "update", given |-> given,
                                                   status |-> 400, before |-> savedTags]]
               /\ UNCHANGED savedTags
    /\ UNCHANGED <<fnVars, mdVars, pdfVars, twoVars, apiVars, hVars>>

\* another save of the article: incrementViewCount, or the summarize handler
SaveAgain ==
    /\ saves.count > 0 /\ saves.count < MaxSaves
    /\ savedTags' = CleanTags(savedTags)
    /\ saves' = Saved("save", [defined |-> FALSE, list |-> <<>>], 200)
    /\ UNCHANGED <<fnVars, mdVars, pdfVars, twoVars, apiVars, hVars>>

NextSave == CreateArticle \/ UpdateArticle \/ SaveAgain

SpecSave == InitSave /\ [][NextSave]_vars

----------------------------------------------------------------------------

(* Properties of generateArticlePDF (Spec) *)

\* page k (counted from 1) of the document bears the mark what at height y
PageHas(k, what, y) ==
    /\ k \in 1..Len(doc.pages)
    /\ \E m \in 1..Len(doc.pages[k]) :
          doc.pages[k][m].what = what /\ doc.pages[k][m].y = y

\* addFooter has been called and has returned or thrown
FooterPassOver == fwdPages > 0 /\ pc \in {"end", "returned"}

FooterY == pageHeight - Pt(45)

\* C2: when the forward pass has produced N pages, addFooter stamps every page
\* K = 1..N with "Page K of N" at the footer position, does not fail, and no
\* footer shows another total.
C2_EveryPageStamped ==
    FooterPassOver =>
        /\ thrown = "none"
        /\ \A K \in 1..fwdPages : PageHas(K, <<"pageOf", K, fwdPages>>, FooterY)
        /\ \A k \in 1..Len(doc.pages) : \A m \in 1..Len(doc.pages[k]) :
              doc.pages[k][m].what[1] = "pageOf" => doc.pages[k][m].what[3] = fwdPages

\* C3: the footer pass adds no page: the finished document has the pages the
\* forward pass produced, and a one-page article gives one page whose footer reads
\* "Page 1 of 1".
C3_FooterAddsNoPage ==
    (FooterPassOver /\ thrown = "none") =>
        /\ Len(doc.pages) = fwdPages
        /\ fwdPages = 1 => PageHas(1, <<"pageOf", 1, 1>>, FooterY)

\* C4: the promise resolves only after 'end', with all chunks written in the
\* order written; when a step of the try block throws or the document emits
\* 'error' the promise is rejected with that error and carries no buffer, and the
\* export route then answers 500 without PDF bytes.
C4_NoPartialOutput ==
    /\ promise.state = "resolved" =>
          /\ stream.endFired /\ doc.ended /\ thrown = "none"
          /\ promise.buffer = doc.pushed
          /\ promise.buffer = chunks
    /\ thrown # "none" =>
          promise.state = "rejected" /\ promise.error = thrown /\ promise.buffer = <<>>
    /\ stream.destroyed =>
          /\ promise.state = "rejected" /\ promise.buffer = <<>>
          /\ promise.error = (IF thrown # "none" THEN thrown ELSE "stream error")
    /\ response.status = 200 =>
          promise.state = "resolved" /\ response.body = doc.pushed
    /\ (promise.state = "rejected" /\ response # NoResponse) =>
          /\ response.status = 500 /\ response.body = <<>>
          /\ response.error = promise.error

\* addFooter threw after pages had been written to the stream, chunks were
\* handed to the listener, and the route answered
C4_Witness ==
    /\ thrown = "switchToPage out of bounds"
    /\ Len(chunks) >= 2
    /\ promise.state = "rejected"
    /\ response.status = 500

DrawErrors == {"TypeError", "switchToPage out of bounds"}

\* C5: when an output path is given and the write of the finished buffer fails,
\* the promise is rejected, with an error that is no drawing error.
C5_WriteFailureRejects ==
    (outputPath # "null" /\ ~fsOk /\ stream.endFired) =>
        promise.state = "rejected" /\ promise.error \notin DrawErrors

----------------------------------------------------------------------------
(* Properties of generateFilename (SpecFilename) *)

\* the UTC calendar day YYYY-MM-DD of an ISO timestamp
UtcDay(now) == SubSeq(now, 1, 10)

IsYmd(d) ==
    /\ Len(d) = 10
    /\ \A i \in {1, 2, 3, 4, 6, 7, 9, 10} : d[i] \in Digit
    /\ d[5] = "-" /\ d[8] = "-"

\* "_" + date + ".pdf", what follows the title part
DateSuffix(now) == <<"_">> \o UtcDay(now) \o PdfExt

\* the part of a returned name between "article_" and the date suffix
TitlePart(r, now) == SubSeq(r, Len(ArticlePrefix) + 1, Len(r) - Len(DateSuffix(now)))

\* C6: generateFilename is total and deterministic: every call on a string title
\* returns a non-empty string ending in ".pdf", and two calls with the same
\* title on the same (UTC) date return the same string.
C6_FilenameTotal ==
    \A i \in 1..Len(fnCalls) :
        /\ fnCalls[i].result # <<>>
        /\ EndsWith(fnCalls[i].result, PdfExt)
        /\ \A j \in 1..Len(fnCalls) :
              UtcDay(fnCalls[i].now) = UtcDay(fnCalls[j].now)
                  => fnCalls[i].result = fnCalls[j].result

\* two calls at different instants of one day, on a long title with a
\* non-ASCII character
C6_Witness ==
    /\ Len(fnCalls) = 2
    /\ fnCalls[1].now # fnCalls[2].now
    /\ UtcDay(fnCalls[1].now) = UtcDay(fnCalls[2].now)
    /\ Len(fnTitle) > TitleMax
    /\ \E k \in 1..Len(fnTitle) : fnTitle[k] = "e'"

SafeChars == AlnumClass \cup {"_", "-", "."}

\* C7: the returned name is filesystem-safe and contains no two consecutive
\* underscores anywhere in it.
C7_NoDoubleUnderscore ==
    \A i \in 1..Len(fnCalls) :
        /\ \A k \in 1..Len(fnCalls[i].result) : fnCalls[i].result[k] \in SafeChars
        /\ ~Includes(fnCalls[i].result, <<"_", "_">>)

\* C8 as stated: the length of the returned name is at most 50 plus the length
\* of the date suffix.
C8_LengthAsClaimed ==
    \A i \in 1..Len(fnCalls) :
        Len(fnCalls[i].result) <= TitleMax + Len(DateSuffix(fnCalls[i].now))

\* C8 amended: the length of the returned name is at most the length of the
\* fixed prefix "article_" (8) plus 50 plus the length of the date suffix
\* "_YYYY-MM-DD.pdf" (15), and the title part alone is at most 50 long.
C8_LengthBound ==
    \A i \in 1..Len(fnCalls) :
        /\ Len(fnCalls[i].result)
              <= Len(ArticlePrefix) + TitleMax + Len(DateSuffix(fnCalls[i].now))
        /\ Len(TitlePart(fnCalls[i].result, fnCalls[i].now)) <= TitleMax

\* a title longer than 50 alphanumerics: the bound is met exactly
C8_Witness ==
    /\ Len(fnCalls) >= 1
    /\ Len(fnTitle) > TitleMax
    /\ Len(fnCalls[1].result)
          = Len(ArticlePrefix) + TitleMax + Len(DateSuffix(fnCalls[1].now))

\* the positions of t that survive replace-then-collapse: every position except
\* a non-alphanumeric one that directly follows a non-alphanumeric one
KeptPositions(t) ==
    {k \in 1..Len(t) : t[k] \in AlnumClass \/ k = 1 \/ t[k - 1] \in AlnumClass}

\* C9: the name is "article_" + S(title) + "_" + YYYY-MM-DD + ".pdf"; S(title) is
\* the title with every character outside [a-zA-Z0-9] replaced by "_", runs of
\* underscores collapsed, then cut to its first 50 characters (the j-th
\* character of S is the character at the j-th kept position); S is
\* idempotent; "Hello World Article" gives article_Hello_World_Article_<date>.pdf.
C9_FilenameShape ==
    \A i \in 1..Len(fnCalls) :
        LET r == fnCalls[i].result
            now == fnCalls[i].now
            S == TitlePart(r, now)
            K == KeptPositions(fnTitle)
        IN  /\ IsYmd(UtcDay(now))
            /\ StartsWith(r, ArticlePrefix)
            /\ EndsWith(r, DateSuffix(now))
            /\ Len(r) >= Len(ArticlePrefix) + Len(DateSuffix(now))
            /\ Len(S) = Min(TitleMax, Cardinality(K))
            /\ \A k \in K :
                  LET j == Cardinality({m \in K : m <= k})
                  IN  j <= TitleMax =>
                        S[j] = IF fnTitle[k] \in AlnumClass THEN fnTitle[k] ELSE "_"
            /\ SanitizeTitle(S) = S
            /\ fnTitle = HelloWorldArticle =>
                  r = <<"a","r","t","i","c","l","e","_","H","e","l","l","o","_",
                        "W","o","r","l","d","_","A","r","t","i","c","l","e">>
                      \o DateSuffix(now)

\* the example title has been given a name
C9_Witness ==
    /\ fnTitle = HelloWorldArticle
    /\ Len(fnCalls) >= 1
    /\ Len(fnCalls[1].result) = 42

----------------------------------------------------------------------------
(* SpecClassify: the line callback of processMarkdownContent on one line *)

MaxBody == 4

RECURSIVE Concats(_, _)
\* the concatenations of at most n strings of T
Concats(T, n) ==
    IF n = 0 THEN {<<>>}
    ELSE LET shorter == Concats(T, n - 1)
         IN  shorter \cup {b \o t : b \in shorter, t \in T}

LinePrefixes ==
    { <<>>, <<"#">>, <<"#", " ">>, <<"#", "#", " ">>, <<"#", "#", "#", " ">>,
      <<"#", "#", "#", "#", " ">>, <<"#", "#", "#">>,
      <<"-", " ">>, <<"-">>, <<"*", " ">>,
      <<"1", ".", " ">>, <<"1", "2", ".", "TAB">>, <<"1", ".">>, <<"1", " ">>,
      <<".", " ">>, <<">", " ">>, <<">">> }

BodyTokens == { <<"a">>, <<" ">>, <<"*">>, <<"*", "*">> }

Margins == { <<>>, <<" ">>, <<"TAB", " ">>, <<"CR">> }

PlainBoldPlain ==
    <<"p","l","a","i","n"," ","*","*","b","o","l","d","*","*"," ","p","l","a","i","n">>

Lines ==
    {l \o p \o b \o r :
        l \in {<<>>, <<" ">>}, p \in LinePrefixes,
        b \in Concats(BodyTokens, MaxBody), r \in Margins}
    \cup {PlainBoldPlain}

\* the style the previous line may have left in force
StylesInForce == {ContentLabelStyle, Style(10, "Helvetica-Oblique", "#6b7280")}

MaxLead == 2

\* first lines that are followed by a second line
Leaders == {p \o b : p \in LinePrefixes, b \in Concats(BodyTokens, MaxLead)}

\* second lines: one line of every rule, and one with an unterminated bold span
Followers ==
    { <<>>, <<"a">>, <<" ", "a", " ">>, <<"#", "#", " ", "a">>, <<"-", " ", "a">>,
      <<"1", ".", " ", "a">>, <<">", " ", "a">>, <<"a", "*", "*", "b", "*", "*">>,
      <<"a", "*", "*", "b">> }

\* two items that bear the same number
SameNumberTwice == << <<"3", ".", " ", "x">>, <<"3", ".", " ", "y">> >>

\* the arrays content.split('\n') may give: one line, or two
LineArrays ==
    {<<l>> : l \in Lines} \cup {<<l, f>> : l \in Leaders, f \in Followers}
    \cup {SameNumberTwice}

InitClassify ==
    /\ mdLines \in LineArrays
    /\ mdLine = mdLines[1]
    /\ mdStyle \in StylesInForce
    /\ mdOps = <<>>
    /\ mdState = "idle"
    /\ mdLog = <<>>
    /\ FilenameIdle
    /\ RenderIdle
    /\ ConcurrentIdle
    /\ ApiIdle
    /\ HandlersIdle
    /\ SaveIdle

\* one turn of lines.forEach
ProcessOneLine ==
    /\ Len(mdLog) < Len(mdLines)
    /\ LET raw == mdLines[Len(mdLog) + 1]
           r == ProcessLine(mdStyle, raw)
       IN  /\ mdLine' = raw
           /\ mdOps' = r.ops
           /\ mdStyle' = r.st
           /\ mdLog' = Append(mdLog, [raw |-> raw, ops |-> r.ops])
    /\ mdState' = "done"
    /\ UNCHANGED mdLines
    /\ UNCHANGED fnVars
    /\ UNCHANGED pdfVars
    /\ UNCHANGED <<twoVars, apiVars, hVars, tVars>>

NextClassify == ProcessOneLine

SpecClassify == InitClassify /\ [][NextClassify]_vars

----------------------------------------------------------------------------
(* Properties of the line classifier and the bold splitter (SpecClassify) *)

RuleNames ==
    <<"empty", "h3", "h2", "h1", "bullet", "numbered", "blockquote", "bold", "paragraph">>

\* rule k of the list, on a trimmed line
RuleMatches(k, t) ==
    CASE k = 1 -> t = <<>>
      [] k = 2 -> StartsWith(t, <<"#", "#", "#", " ">>)
      [] k = 3 -> StartsWith(t, <<"#", "#", " ">>)
      [] k = 4 -> StartsWith(t, <<"#", " ">>)
      [] k = 5 -> StartsWith(t, <<"-", " ">>) \/ StartsWith(t, <<"*", " ">>)
      [] k = 6 -> MatchesNumbered(t)
      [] k = 7 -> StartsWith(t, <<">", " ">>)
      [] k = 8 -> Includes(t, BoldDelimiter)
      [] OTHER -> TRUE

\* the first rule of the list that matches
FirstRule(t) ==
    CHOOSE k \in 1..Len(RuleNames) :
        RuleMatches(k, t) /\ \A j \in 1..(k - 1) : ~RuleMatches(j, t)

IsText(op, text, size, font, indent) ==
    /\ op.kind = "text" /\ op.text = text /\ op.size = size /\ op.font = font
    /\ op.indent = indent /\ ~op.continued

\* the calls ops draw the trimmed line t in the style named
DrawnInStyle(name, t, ops) ==
    CASE name = "empty" -> ops = <<MoveDownOp(30)>>
      [] name = "h3" ->
           Len(ops) = 2 /\ IsText(ops[1], SubstringFrom(t, 4), 12, "Helvetica-Bold", 0)
      [] name = "h2" ->
           Len(ops) = 2 /\ IsText(ops[1], SubstringFrom(t, 3), 14, "Helvetica-Bold", 0)
      [] name = "h1" ->
           Len(ops) = 2 /\ IsText(ops[1], SubstringFrom(t, 2), 16, "Helvetica-Bold", 0)
      [] name = "bullet" ->
           Len(ops) = 1
           /\ IsText(ops[1], BulletGlyph \o SubstringFrom(t, 2), 10, "Helvetica", 20)
      [] name = "numbered" ->
           Len(ops) = 1 /\ IsText(ops[1], t, 10, "Helvetica", 20)
      [] name = "blockquote" ->
           Len(ops) = 1
           /\ IsText(ops[1], SubstringFrom(t, 2), 10, "Helvetica-Oblique", 30)
           /\ ops[1].color = "#6b7280"
      [] name = "bold" ->
           /\ Len(ops) >= 3
           /\ ops[Len(ops)] = MoveDownOp(20)
           /\ \A k \in 1..(Len(ops) - 1) :
                 ops[k].kind = "text" /\ ops[k].align = "left" /\ ops[k].indent = 0
           /\ ops[1].continued
      [] OTHER ->
           /\ Len(ops) = 2
           /\ IsText(ops[1], t, 10, "Helvetica", 0)
           /\ ops[1].align = "justify"
           /\ ops[2] = MoveDownOp(20)

\* C1: every line is trimmed and drawn in exactly one style, the style of the
\* first rule that matches in the order empty, "### ", "## ", "# ", "- " or "* ",
\* ^\d+\.\s, "> ", contains "**", otherwise paragraph; a later rule is never
\* applied when an earlier one matches.
C1_FirstMatchWins ==
    mdState = "done" =>
        LET t == Trim(mdLine)
            first == FirstRule(t)
        IN  /\ DrawnInStyle(RuleNames[first], t, mdOps)
            /\ \A k \in 1..Len(RuleNames) :
                  k # first => ~DrawnInStyle(RuleNames[k], t, mdOps)
            /\ StartsWith(t, <<"#", "#", "#", " ">>) => mdOps[1].size = 12
            /\ (first \in {5, 6, 7} /\ Includes(t, BoldDelimiter)) =>
                  Len(mdOps) = 1 /\ ~mdOps[1].continued

\* a bullet line that also contains "**", with white space around it, has been
\* drawn
C1_Witness ==
    /\ mdState = "done"
    /\ mdLine # Trim(mdLine)
    /\ StartsWith(Trim(mdLine), <<"*", " ">>)
    /\ Includes(Trim(mdLine), BoldDelimiter)
    /\ Len(mdOps) = 1

RECURSIVE Join(_, _)
\* the segments put together again with sep between them
Join(segs, sep) ==
    IF Len(segs) = 0 THEN <<>>
    ELSE IF Len(segs) = 1 THEN segs[1]
    ELSE segs[1] \o sep \o Join(Tail(segs), sep)

\* the number of non-overlapping delimiters, counted from the left
DelimiterCount(t) ==
    Cardinality({i \in 1..(Len(t) - 1) :
        /\ t[i] = "*" /\ t[i + 1] = "*"
        /\ \E j \in 0..(i - 1) :
              /\ (j = 0 \/ t[j] # "*")
              /\ \A m \in (j + 1)..i : t[m] = "*"
              /\ (i - j) % 2 = 1})

\* C10: a line handed to the bold splitter is split on "**" into segments kept in
\* their order; even segments are drawn regular, odd segments bold; every
\* segment but the last is continued text and only the last ends the line; one
\* pair of delimiters ("plain **bold** plain") gives regular, bold, regular.
C10_BoldSegments ==
    (mdState = "done" /\ FirstRule(Trim(mdLine)) = 8) =>
        LET t == Trim(mdLine)
            n == Len(mdOps) - 1
            segs == [k \in 1..n |-> mdOps[k].text]
        IN  /\ n = DelimiterCount(t) + 1
            /\ Join(segs, BoldDelimiter) = t
            /\ \A k \in 1..n :
                  /\ mdOps[k].kind = "text"
                  /\ ~Includes(mdOps[k].text, BoldDelimiter)
                  /\ mdOps[k].font =
                        (IF (k - 1) % 2 = 0 THEN "Helvetica" ELSE "Helvetica-Bold")
                  /\ mdOps[k].continued = (k < n)
            /\ mdOps[n + 1].kind = "moveDown"
            /\ t = PlainBoldPlain =>
                  /\ n = 3
                  /\ segs = << <<"p","l","a","i","n"," ">>, <<"b","o","l","d">>,
                               <<" ","p","l","a","i","n">> >>
                  /\ <<mdOps[1].font, mdOps[2].font, mdOps[3].font>>
                        = <<"Helvetica", "Helvetica-Bold", "Helvetica">>

\* the example line with one pair of delimiters has been drawn
C10_Witness ==
    /\ mdState = "done"
    /\ mdLine = PlainBoldPlain
    /\ Len(mdOps) = 4

\* the style a paragraph, or a bold line that ends in a regular segment, leaves
BodyStyle == Style(10, "Helvetica", "#374151")

\* line k of the array went to the bold splitter with an odd number of "**"
UnterminatedBold(k) ==
    /\ k \in 1..Len(mdLog)
    /\ FirstRule(Trim(mdLog[k].raw)) = 8
    /\ DelimiterCount(Trim(mdLog[k].raw)) % 2 = 1

\* C11: a line with an odd number of "**" is drawn without a pairing check: its
\* segments are an even number, every segment but the last is continued, the
\* last one is drawn bold (odd index) and ends the line; the line after it gets
\* the calls it would get after a well-formed line.
C11_UnterminatedBold ==
    \A k \in 1..Len(mdLog) :
        UnterminatedBold(k) =>
            LET ops == mdLog[k].ops
                n == Len(ops) - 1
            IN  /\ n >= 2 /\ n % 2 = 0
                /\ \A j \in 1..n : ops[j].kind = "text" /\ ops[j].continued = (j < n)
                /\ ops[n].font = "Helvetica-Bold"
                /\ ops[n + 1] = MoveDownOp(20)
                /\ k < Len(mdLog) =>
                      LET next == mdLog[k + 1]
                          t == Trim(next.raw)
                      IN  /\ next.ops = ProcessLine(BodyStyle, next.raw).ops
                          /\ DrawnInStyle(RuleNames[FirstRule(t)], t, next.ops)

\* a line with one unmatched "**" has been drawn, and a paragraph after it
C11_Witness ==
    /\ Len(mdLog) = 2
    /\ UnterminatedBold(1)
    /\ mdLog[1].raw = <<"a", "*", "*">>
    /\ mdLog[2].raw = <<"a">>
    /\ Len(mdLog[2].ops) = 2

\* C12: a line that matches ^\d+\.\s after trimming is drawn by one text call
\* whose text is the whole trimmed line, number and period included; two items
\* that bear the same number are both drawn as written.
C12_NumberedVerbatim ==
    /\ \A k \in 1..Len(mdLog) :
          LET t == Trim(mdLog[k].raw)
          IN  MatchesNumbered(t) =>
                /\ Len(mdLog[k].ops) = 1
                /\ mdLog[k].ops[1].kind = "text"
                /\ mdLog[k].ops[1].text = t
                /\ mdLog[k].ops[1].indent = 20
    /\ (mdLines = SameNumberTwice /\ Len(mdLog) = 2) =>
          /\ mdLog[1].ops[1].text = <<"3", ".", " ", "x">>
          /\ mdLog[2].ops[1].text = <<"3", ".", " ", "y">>

\* the two items numbered 3 have been drawn
C12_Witness ==
    /\ mdLines = SameNumberTwice
    /\ Len(mdLog) = 2
    /\ MatchesNumbered(mdLog[2].raw)

\* the text calls among ops
TextsOf(ops) == {ops[j].text : j \in {i \in 1..Len(ops) : ops[i].kind = "text"}}

\* C13: the callback gives one unit per element of the array, in the order of
\* the array; the calls made for a line are those its trimmed text gets on its
\* own, whatever line came before and whatever style was in force; two
\* paragraph lines in a row are two units, each with its own text.
C13_LineIndependence ==
    /\ Len(mdLog) <= Len(mdLines)
    /\ \A k \in 1..Len(mdLog) :
          /\ mdLog[k].raw = mdLines[k]
          /\ mdLog[k].ops = ProcessLine(BodyStyle, Trim(mdLines[k])).ops
          /\ mdLog[k].ops = ProcessLine(ContentLabelStyle, Trim(mdLines[k])).ops
          /\ FirstRule(Trim(mdLines[k])) = 9 => TextsOf(mdLog[k].ops) = {Trim(mdLines[k])}
    /\ \A j, k \in 1..Len(mdLog) :
          Trim(mdLines[j]) = Trim(mdLines[k]) => mdLog[j].ops = mdLog[k].ops

\* two paragraph lines in a row, the same but for white space, have been drawn
C13_Witness ==
    /\ Len(mdLog) = 2
    /\ mdLines = << <<"a">>, <<" ", "a", " ">> >>
    /\ mdLog[1].ops = mdLog[2].ops

----------------------------------------------------------------------------
(* Properties of the render and the article record (Spec) *)

\* C14: the render and the export route write no field of the article they are
\* given: at every point of generateArticlePDF, after it has settled and after
\* the route has answered (generateFilename included), the record is the one
\* the database holds, and the route saves nothing.
C14_ArticleNotWritten ==
    /\ article = stored
    /\ article \in Articles

\* an article with tags and a summary has been rendered and sent
C14_Witness ==
    /\ response.status = 200
    /\ Len(article.tags) = 2
    /\ article.summary.rows = 2

IsLabelMark(m) == m.what[1] = "label"
IsValueMark(m) == m.what[1] = "value"

\* metadata.forEach is over
MetadataRowsDrawn ==
    pc \in {"tags", "metadataEnd", "addContent", "lines", "addFooter", "end", "returned"}

\* C16: the metadata block has five rows, Author, Email, Created, Last Updated,
\* Views, in that order, whatever is absent: no author, or an author without
\* name, gives "Unknown Author"; no email gives "N/A"; no viewCount gives "0"
\* and the viewCount 0 gives "0".
C16_MetadataRows ==
    MetadataRowsDrawn =>
        LET labels == SelectSeq(doc.pages[1], IsLabelMark)
            values == SelectSeq(doc.pages[1], IsValueMark)
            by == article.createdBy
        IN  /\ Len(labels) = 5 /\ Len(values) = 5
            /\ [k \in 1..5 |-> labels[k].what[2]]
                  = <<"Author", "Email", "Created", "Last Updated", "Views">>
            /\ [k \in 1..5 |-> values[k].what[2]]
                  = <<"Author", "Email", "Created", "Last Updated", "Views">>
            /\ (~by.defined \/ ~by.name.defined) => values[1].what[3] = UnknownAuthor
            /\ (by.defined /\ by.name.defined /\ by.name.s # <<>>) =>
                  values[1].what[3] = by.name.s
            /\ (~by.defined \/ ~by.email.defined) => values[2].what[3] = NotAvailable
            /\ (by.defined /\ by.email.defined) => values[2].what[3] = by.email.s
            /\ ~article.viewCount.defined => values[5].what[3] = <<"0">>
            /\ (article.viewCount.defined /\ article.viewCount.n = 0) =>
                  values[5].what[3] = <<"0">>
            /\ (article.viewCount.defined /\ article.viewCount.n = 12) =>
                  values[5].what[3] = <<"1", "2">>

\* an article with no author and the view count 0 has been rendered
C16_Witness ==
    /\ pc = "returned"
    /\ ~article.createdBy.defined
    /\ article.viewCount = [defined |-> TRUE, n |-> 0]
    /\ thrown = "none"

----------------------------------------------------------------------------
(* Properties of the routes (SpecApi) *)

\* the request carries, in its cookie, a token of an account that exists and
\* is active
ValidSession(req) ==
    /\ req.cookie.kind = "valid"
    /\ req.cookie.sub \in UserIds
    /\ Users[req.cookie.sub].isActive

\* C17: a PUT of valid fields on an article that exists, from an account that is
\* signed in, changes the article exactly when the account created the article
\* or is an admin; from any other account it is answered 403.
C17_OwnerOrAdminUpdates ==
    (/\ apiLast.route = "PUT /api/articles/:id"
     /\ ValidSession(apiLast)
     /\ apiLast.body = "valid"
     /\ apiLast.status # 404) =>
        LET u == apiLast.cookie.sub
            allowed == Users[u].role = "admin" \/ InitialArticles[apiLast.id].createdBy = u
        IN  /\ allowed => apiLast.status = 200 /\ dbArticles[apiLast.id].title = "T2"
            /\ ~allowed => apiLast.status = 403

\* C18: a DELETE without a valid token is answered 401 and a DELETE from an
\* account of role user, the author's included, is answered 403, and neither
\* changes the collection; an article stops existing only in the step of a
\* DELETE from an active admin account.
C18_OnlyAdminDeletes ==
    /\ [](apiLast.route = "DELETE /api/articles/:id" =>
            /\ ~ValidSession(apiLast) => apiLast.status = 401 /\ ~apiLast.handler
            /\ (ValidSession(apiLast) /\ Users[apiLast.cookie.sub].role = "user") =>
                   apiLast.status = 403 /\ ~apiLast.handler)
    /\ [][(apiLast'.route = "DELETE /api/articles/:id" /\ apiLast'.status \in {401, 403})
             => dbArticles' = dbArticles]_vars
    /\ [][\A a \in ArticleIds :
             (dbArticles[a].exists /\ ~dbArticles'[a].exists) =>
                 /\ apiLast'.route = "DELETE /api/articles/:id"
                 /\ apiLast'.id = a
                 /\ apiLast'.status = 200
                 /\ ValidSession(apiLast')
                 /\ Users[apiLast'.cookie.sub].role = "admin"]_vars

\* the author of the article, of role user, has asked to delete it
C18_Witness ==
    /\ apiLast.route = "DELETE /api/articles/:id"
    /\ apiLast.cookie = [kind |-> "valid", sub |-> "alice"]
    /\ apiLast.status = 403
    /\ dbArticles["a1"].exists
    /\ dbArticles["a1"].createdBy = "alice"

\* C19: of the requests of one client to POST /api/articles/:id/summarize, at
\* most 5 within any one minute run the summarize handler.
C19_SummarizeLimited ==
    \A k \in 1..Len(runs) :
        Cardinality({j \in 1..Len(runs) :
            /\ runs[j].ip = runs[k].ip
            /\ runs[j].at >= runs[k].at
            /\ runs[j].at < runs[k].at + 60}) <= 5

\* C20: a request to a protected endpoint with no token cookie and, in the
\* Authorization: Bearer header, a valid token of an active user reaches the
\* handler.
C20_BearerAuthenticates ==
    (/\ apiLast.route = "GET /api/auth/profile"
     /\ apiLast.cookie = NoToken
     /\ apiLast.bearer.kind = "valid"
     /\ apiLast.bearer.sub \in UserIds
     /\ Users[apiLast.bearer.sub].isActive) =>
        apiLast.status = 200 /\ apiLast.handler

----------------------------------------------------------------------------
(* Properties of addMetadata: the rows (Spec) *)

IsBoxMark(m) == m.what[1] = "metaBox"

\* C21: the k-th metadata row (k = 0..4) is drawn at origin + k*18, origin being
\* the height of the first row: the label and the value of a row are at one
\* height, the texts of the rows before shift no row, and all five rows lie
\* inside the shaded rectangle, 120 pt high.
C21_RowsAtFixedPitch ==
    MetadataRowsDrawn =>
        LET labels == SelectSeq(doc.pages[1], IsLabelMark)
            values == SelectSeq(doc.pages[1], IsValueMark)
            box == SelectSeq(doc.pages[1], IsBoxMark)[1]
            origin == labels[1].y
        IN  \A k \in 0..4 :
               /\ labels[k + 1].y = origin + k * Pt(18)
               /\ values[k + 1].y = labels[k + 1].y
               /\ labels[k + 1].y >= box.y
               /\ labels[k + 1].y + LineHeight("Helvetica-Bold", 10) <= box.y + box.what[2]

----------------------------------------------------------------------------
(* Properties of addMetadata: the tag chips (SpecTags) *)

IsChipMark(m) == m.what[1] = "chip"
IsChipText(m) == m.what[1] = "chipText"
IsTagsLabel(m) == m.what[1] = "tagsLabel"

\* the chips drawn so far: each <<"chip", k, left edge, right edge>> at its y
Chips == SelectSeq(doc.pages[1], IsChipMark)

ChipWidth(c) == c.what[4] - c.what[3]

\* the right edge of the content area, and the left edge of a wrapped chip line
RightEdge == pageWidth - defaultMargin
WrapIndent == defaultMargin + Pt(70)

\* the pen when tags.forEach starts: x where the text "Tags:" was put, y (the
\* upper edge of a chip on the first line) one line of Helvetica-Bold 10 below it
FirstPenX == defaultMargin + Pt(20)
FirstChipY ==
    SelectSeq(doc.pages[1], IsTagsLabel)[1].y + LineHeight("Helvetica-Bold", 10) - Pt(2)

\* doc.widthOfString("#" + tag) when the k-th turn starts: the first turn finds
\* Helvetica-Bold 10 in force, the later ones Helvetica 9
Measured(k) ==
    LET tag == article.tags[k]
    IN  IF k = 1 THEN tag.boldUnits * 10 * 10 ELSE tag.units * 9 * 10

\* the pen before the k-th chip: after a chip it has advanced from the chip's
\* left edge by the chip's width and 16 pt
PenBefore(k) == IF k = 1 THEN FirstPenX ELSE Chips[k - 1].what[4] + Pt(16)
LineBefore(k) == IF k = 1 THEN FirstChipY ELSE Chips[k - 1].y

\* C22: the chips are packed in one pass from left to right: the width of a chip
\* is the measured width of "#" + tag plus 16; the pen wraps (x to margin + 70,
\* the chip line 20 lower) exactly when pen x + chip width > pageWidth - margin,
\* else the chip is drawn at the pen; a chip drawn is never moved again, and
\* after a chip the pen has advanced by the chip's width plus a fixed gap.
C22_GreedyPacking ==
    (pc \in {"tags", "metadataEnd"} \/ MetadataRowsDrawn) =>
        \A k \in 1..Len(Chips) :
            LET c == Chips[k]
                w == Measured(k) + Pt(16)
                wrap == PenBefore(k) + w > RightEdge
            IN  /\ c.what[2] = k
                /\ ChipWidth(c) = w
                /\ wrap => c.what[3] = WrapIndent /\ c.y = LineBefore(k) + Pt(20)
                /\ ~wrap => c.what[3] = PenBefore(k) /\ c.y = LineBefore(k)
                /\ (pc = "tags" /\ k = Len(Chips)) => doc.x = c.what[4] + Pt(16)

\* three tags were laid out: the second was wrapped and the third stands beside it
C22_Witness ==
    /\ pc = "returned" /\ thrown = "none"
    /\ Len(Chips) = 3
    /\ Chips[2].y = Chips[1].y + Pt(20)
    /\ Chips[2].what[3] = WrapIndent
    /\ Chips[3].y = Chips[2].y
    /\ Chips[3].what[3] = Chips[2].what[4] + Pt(16)

ChipTexts == SelectSeq(doc.pages[1], IsChipText)

RECURSIVE SumOfWidths(_)
\* the widths of the first n chips together
SumOfWidths(n) == IF n = 0 THEN 0 ELSE SumOfWidths(n - 1) + Measured(n) + Pt(16)

\* tags.forEach is over
TagsDrawn == pc \in {"metadataEnd", "addContent", "lines", "addFooter", "end", "returned"}

C24_WideChipOnEmptyLine ==
    /\ thrown = "none"
    /\ (pc = "tags" \/ TagsDrawn) =>
          \A k \in 1..Len(Chips) :
              ChipWidth(Chips[k]) > RightEdge - WrapIndent =>
                  /\ ChipWidth(Chips[k]) = Measured(k) + Pt(16)
                  /\ Chips[k].what[4] > RightEdge
                  /\ k = 1 => Chips[k].y = FirstChipY

\* C25: a chip that is no wider than a wrapped line, (pageWidth - margin) -
\* (margin + 70), lies inside the content area: its left edge is at or right of
\* the margin and its right edge at or left of pageWidth - margin.
C25_ChipInsideContentArea ==
    (pc = "tags" \/ TagsDrawn) =>
        \A k \in 1..Len(Chips) :
            ChipWidth(Chips[k]) <= RightEdge - WrapIndent =>
                /\ Chips[k].what[3] >= defaultMargin
                /\ Chips[k].what[4] <= RightEdge

\* a chip of a tag of thirty letters was wrapped behind a chip wider than a line
C25_Witness ==
    /\ pc = "returned" /\ thrown = "none"
    /\ Len(Chips) >= 2
    /\ ChipWidth(Chips[1]) > RightEdge - WrapIndent
    /\ ChipWidth(Chips[2]) <= RightEdge - WrapIndent
    /\ ChipWidth(Chips[2]) > Pt(200)
    /\ Chips[2].what[3] = WrapIndent
    /\ Chips[2].y > Chips[1].y

----------------------------------------------------------------------------
(* Properties of the order of the steps of generateArticlePDF (Spec) *)

\* the statements of the try block in the order written
StepOrder ==
    <<"start", "addHeader", "addMetadata", "metadataRows", "tags", "metadataEnd",
      "addContent", "lines", "addFooter", "end", "returned">>

Rank(p) == CHOOSE i \in 1..Len(StepOrder) : StepOrder[i] = p

\* the marks on the pages of d that satisfy Is
MarksOf(d, Is(_)) ==
    {p \in UNION {{<<k, n>> : n \in 1..Len(d.pages[k])} : k \in 1..Len(d.pages)} :
        Is(d.pages[p[1]][p[2]])}

IsFooterMark(m) == m.what[1] \in {"footerRule", "generated", "pageOf"}
IsLineMark(m) == m.what[1] = "line"
IsFooterRule(m) == m.what[1] = "footerRule"

\* C26: the steps of one render run in the order addHeader, addMetadata,
\* addContent, addFooter, doc.end and none runs twice; a footer is stamped only
\* when every content line has been laid out; once the footer pass may start no
\* content line is laid out; and the document is ended only in the step after
\* addFooter has returned, with every page of the forward pass visited.
C26_StepsInOrder ==
    /\ [][\/ pc' = pc
          \/ Rank(pc') = Rank(pc) + 1
          \/ pc = "metadataRows" /\ pc' = "metadataEnd" /\ article.tags = <<>>
          \/ pc' = "returned" /\ thrown' # "none"]_vars
    /\ [](MarksOf(doc, IsFooterMark) # {} =>
             /\ pc \in {"end", "returned"}
             /\ article.content.string
             /\ index = Len(article.content.lines)
             /\ fwdPages > 0)
    /\ [][(pc \in {"addFooter", "end", "returned"}) =>
             (MarksOf(doc', IsLineMark) = MarksOf(doc, IsLineMark))]_vars
    /\ [][(doc'.ended /\ ~doc.ended) => pc = "end" /\ pc' = "returned"]_vars
    /\ [](doc.ended =>
             /\ thrown = "none"
             /\ \A K \in 1..fwdPages :
                   \E p \in MarksOf(doc, IsFooterRule) : p[1] = K)

\* a render of two content lines has ended its document and handed it over
C26_Witness ==
    /\ pc = "returned" /\ doc.ended /\ stream.endFired
    /\ article.content.string /\ Len(article.content.lines) = 2
    /\ Len(article.tags) = 2
    /\ MarksOf(doc, IsFooterMark) # {}

----------------------------------------------------------------------------
(* Properties of the promise of generateArticlePDF (SpecLive) *)

\* C27: every call of generateArticlePDF settles its promise, and settles it
\* once: the promise is resolved or rejected in the end on every path (a step
\* that throws, an 'error' event, a write that fails in the listener of 'end'),
\* and a settled promise does not change.
C27_SettlesOnce ==
    /\ (pc = "returned") ~> (promise.state # "pending")
    /\ [][promise.state # "pending" => promise' = promise]_vars

----------------------------------------------------------------------------
(* Properties of the concurrent handlers (SpecHandlers) *)

\* no request is being handled
Quiescent == \A h \in Slots : inflight[h].pc = "idle"

\* the reads answered that were made by no user or by another user than the
\* creator
ForeignReads ==
    {i \in 1..Len(answered) :
        /\ answered[i].route = "GET" /\ answered[i].status = 200
        /\ answered[i].user # NewArticle.createdBy}

\* C28: a read by no user or by a user who is not the creator adds 1 to the
\* stored viewCount, a read by the creator adds nothing; when N such reads have
\* been answered, however the requests were interleaved, the stored viewCount
\* has grown by N.
C28_EveryReadCounted ==
    Quiescent => dbDoc.viewCount = NewArticle.viewCount + Cardinality(ForeignReads)

\* C29: a summarize request handled less than an hour after a summary was
\* stored is answered 429 and calls no LLM, and two summaries of the article are
\* never stored less than an hour apart, however the requests are interleaved.
C29_OncePerHour ==
    /\ \A i \in 1..Len(checks) : \A k \in 1..checks[i].stored :
          checks[i].at < stores[k].at + OneHour => ~checks[i].passed
    /\ \A i \in 1..Len(stores) : \A j \in 1..Len(stores) :
          i < j => stores[j].at >= stores[i].at + OneHour

----------------------------------------------------------------------------
(* Properties of the stored tags (SpecSave) *)

\* the first place of tag t in list
FirstPlace(list, t) == CHOOSE i \in 1..Len(list) : list[i] = t /\ \A k \in 1..(i - 1) : list[k] # t

\* C30: after every sequence of create and update requests the stored tags are
\* trimmed, lowercase, non-empty and pairwise distinct; they are the tags given,
\* normalised, in the order of their first occurrence; and a save of an article
\* whose tags have this form leaves them as they are.
C30_TagsNormalised ==
    /\ \A i \in 1..Len(savedTags) :
          /\ savedTags[i] # <<>>
          /\ Head(savedTags[i]) \notin WhiteSpace
          /\ savedTags[i][Len(savedTags[i])] \notin WhiteSpace
          /\ \A k \in 1..Len(savedTags[i]) : savedTags[i][k] \notin Upper
          /\ \A j \in 1..Len(savedTags) : i # j => savedTags[i] # savedTags[j]
    /\ (saves.last.status \in {200, 201} /\ saves.last.given.defined) =>
          LET given == saves.last.given.list
              norm == [i \in 1..Len(given) |-> toLowerCase(Trim(given[i]))]
          IN  /\ {savedTags[i] : i \in 1..Len(savedTags)}
                    = {norm[i] : i \in 1..Len(norm)} \ {<<>>}
              /\ \A i \in 1..Len(savedTags) : \A j \in 1..Len(savedTags) :
                    i < j => FirstPlace(norm, savedTags[i]) < FirstPlace(norm, savedTags[j])
    /\ (saves.last.status = 200 /\ ~saves.last.given.defined) =>
          savedTags = saves.last.before
    /\ saves.last.status = 400 => savedTags = saves.last.before

\* an article was stored with the tags "a" and "b", and saved again
C30_Witness ==
    /\ saves.count = 2
    /\ saves.last.kind = "save"
    /\ savedTags = << <<"a">>, <<"b">> >>
    /\ saves.last.before = savedTags

====
